---- MODULE Spec2Model ----
(***************************************************************************)
(* A model of the ID3v2 tag container of rust-id3 (src/src/tag.rs): the    *)
(* in-memory tag with its frames, per-frame file offsets and the           *)
(* modified_offset watermark, and the load / save engine with its partial  *)
(* overwrite and full rewrite branches, working on files kept as byte      *)
(* sequences.  The frame codec (frame.rs) and the synchsafe codec          *)
(* (util.rs) are not part of tag.rs; they are modelled from the format     *)
(* description (header layout, payload layout, synchsafe arithmetic).      *)
(***************************************************************************)
EXTENDS Integers, Sequences, FiniteSets, TLC

(***************************************************************************)
(* Bounds of the model.                                                    *)
(***************************************************************************)
\* most operations (load, save, container operation) in one behaviour
MaxOps == 5
\* most I/O calls that fail in one behaviour
MaxFailures == 1
\* most saves of one behaviour in which a call inside skip_metadata fails
MaxSkipFailures == 1

\* operations performed in one behaviour of the container specification
MaxTagOps == 3
\* most frames a tag holds before a further add is not explored
MaxFrames == 3

(***************************************************************************)
(* Byte-sequence helpers.                                                  *)
(***************************************************************************)
Min(a, b) == IF a < b THEN a ELSE b

Zeros(n) == [i \in 1..n |-> 0]

Take(s, n) == SubSeq(s, 1, Min(n, Len(s)))

Drop(s, n) == SubSeq(s, n + 1, Len(s))

\* std::io File::write at position pos: overwrites, extends the file when the
\* data reaches past its end (zero-filling a gap left by a seek past the end).
\* A seek past the end alone, or followed by a write of no bytes, leaves the
\* file as it is.
WriteAt(file, pos, data) ==
    IF data = <<>> THEN file
    ELSE LET gap  == IF pos > Len(file) THEN Zeros(pos - Len(file)) ELSE <<>>
             head == Take(file, pos) \o gap
         IN  head \o data \o Drop(file, pos + Len(data))

\* write_be_u32 / read_be_u32
be_u32(x) ==
    << (x \div 16777216) % 256, (x \div 65536) % 256, (x \div 256) % 256, x % 256 >>

\* read_be_u32 of four bytes whose first is below 128.  A value of 2^31 or
\* more has no number in TLC: the operator has no value there, and what reads
\* raw bytes decides the case of a first byte >= 128 before it comes here
\* (read_synchsafe masks the byte, FrameRead finds the size beyond the file).
from_be_u32(b) ==
    CASE b[1] < 128 -> b[1] * 16777216 + b[2] * 65536 + b[3] * 256 + b[4]

(***************************************************************************)
(* util::synchsafe / util::unsynchsafe (util.rs, modelled from the         *)
(* synchsafe arithmetic of the format: 7 payload bits per byte).           *)
(***************************************************************************)
synchsafe(n) ==
      (n % 128)
    + ((n \div 128) % 128) * 256
    + ((n \div 16384) % 128) * 65536
    + ((n \div 2097152) % 128) * 16777216

\* util::unsynchsafe, on a value below 2^31
unsynchsafe(x) ==
      (x % 128)
    + ((x \div 256) % 128) * 128
    + ((x \div 65536) % 128) * 16384
    + ((x \div 16777216) % 128) * 2097152

\* util::unsynchsafe(read_be_u32()): unsynchsafe masks bit 31 away, so the
\* top bit of the first byte is dropped before the four bytes are put together
read_synchsafe(b) == unsynchsafe(from_be_u32(<<b[1] % 128, b[2], b[3], b[4]>>))

(***************************************************************************)
(* Frame identifiers and strings are byte sequences (ASCII codes).         *)
(***************************************************************************)
TIT2 == <<84, 73, 84, 50>>
TPE1 == <<84, 80, 69, 49>>
TPE2 == <<84, 80, 69, 50>>
TALB == <<84, 65, 76, 66>>
TSOP == <<84, 83, 79, 80>>
TSOT == <<84, 83, 79, 84>>
TCON == <<84, 67, 79, 78>>
TYER == <<84, 89, 69, 82>>
TRCK == <<84, 82, 67, 75>>
TLEN == <<84, 76, 69, 78>>
TXXX == <<84, 88, 88, 88>>
COMM == <<67, 79, 77, 77>>
APIC == <<65, 80, 73, 67>>
USLT == <<85, 83, 76, 84>>
ID3  == <<73, 68, 51>>

\* encoding::Encoding
Latin1  == 0
UTF16   == 1
UTF16BE == 2
UTF8    == 3

\* picture_type::PictureType (byte valued)
Other      == 0
CoverFront == 3

(***************************************************************************)
(* Text codec (modelled from the format description): encode, decode,      *)
(* terminator width, split on the first encoding-sized null.               *)
(***************************************************************************)
IsWide(enc) == enc = UTF16 \/ enc = UTF16BE

RECURSIVE Units(_, _)
\* the 16-bit code units of an ASCII text, little or big endian
Units(text, little) ==
    IF text = <<>> THEN <<>>
    ELSE (IF little THEN <<Head(text), 0>> ELSE <<0, Head(text)>>)
         \o Units(Tail(text), little)

encode(text, enc) ==
    IF enc = UTF16 THEN <<255, 254>> \o Units(text, TRUE)
    ELSE IF enc = UTF16BE THEN Units(text, FALSE)
    ELSE text

Terminator(enc) == IF IsWide(enc) THEN <<0, 0>> ELSE <<0>>

encode_terminated(text, enc) == encode(text, enc) \o Terminator(enc)

RECURSIVE FromUnits(_, _)
\* the text of a sequence of 16-bit code units (an odd length or a code unit
\* beyond one byte does not decode: the result then holds -1)
FromUnits(bytes, little) ==
    IF bytes = <<>> THEN <<>>
    ELSE IF Len(bytes) = 1 THEN <<-1>>
    ELSE LET lo == IF little THEN bytes[1] ELSE bytes[2]
             hi == IF little THEN bytes[2] ELSE bytes[1]
         IN  <<IF hi = 0 THEN lo ELSE -1>> \o FromUnits(Drop(bytes, 2), little)

RECURSIVE TrimNulls(_)
\* trailing nulls of a decoded text are trimmed
TrimNulls(text) ==
    IF text # <<>> /\ text[Len(text)] = 0
    THEN TrimNulls(SubSeq(text, 1, Len(text) - 1))
    ELSE text

\* decode(bytes, enc): the text, or a sequence holding -1 when the bytes are
\* not valid for the encoding
decode(bytes, enc) ==
    IF enc = UTF16 THEN
        IF Len(bytes) >= 2 /\ bytes[1] = 255 /\ bytes[2] = 254
        THEN FromUnits(Drop(bytes, 2), TRUE)
        ELSE IF Len(bytes) >= 2 /\ bytes[1] = 254 /\ bytes[2] = 255
        THEN FromUnits(Drop(bytes, 2), FALSE)
        ELSE IF bytes = <<>> THEN <<>> ELSE <<-1>>
    ELSE IF enc = UTF16BE THEN FromUnits(bytes, FALSE)
    ELSE bytes

DecodeOk(text) == \A i \in 1..Len(text) : text[i] >= 0

RECURSIVE NullAt(_, _, _)
\* index of the first encoding-sized null at or after index i (0: none)
NullAt(bytes, enc, i) ==
    IF IsWide(enc) THEN
        IF i + 1 > Len(bytes) THEN 0
        ELSE IF bytes[i] = 0 /\ bytes[i + 1] = 0 THEN i
        ELSE NullAt(bytes, enc, i + 2)
    ELSE
        IF i > Len(bytes) THEN 0
        ELSE IF bytes[i] = 0 THEN i
        ELSE NullAt(bytes, enc, i + 1)

\* split_once_null(bytes, enc): <<found, before, after>>
split_once_null(bytes, enc) ==
    LET k == NullAt(bytes, enc, 1)
        w == Len(Terminator(enc))
    IN  IF k = 0 THEN <<FALSE, bytes, <<>> >>
        ELSE <<TRUE, SubSeq(bytes, 1, k - 1), Drop(bytes, k + w - 1)>>

(***************************************************************************)
(* Frames (frame.rs, modelled from the format description).  A frame is a  *)
(* record: uuid (the opaque identity), id (four bytes), encoding,          *)
(* contents (a tagged payload), flags and offset (the file position of     *)
(* its header, 0 when never persisted).                                    *)
(***************************************************************************)
TextContent(text) == [variant |-> "Text", text |-> text]

ExtendedTextContent(key, value) ==
    [variant |-> "ExtendedText", key |-> key, value |-> value]

CommentContent(description, text) ==
    [variant |-> "Comment", key |-> description, value |-> text]

LyricsContent(text) == [variant |-> "Lyrics", text |-> text]

PictureContent(mime_type, picture_type, description, data) ==
    [variant |-> "Picture", mime_type |-> mime_type, picture_type |-> picture_type,
     description |-> description, data |-> data]

UnknownContent(data) == [variant |-> "Unknown", data |-> data]

\* FrameFlags::new(): the flags tag.rs reads (tag / file alter preservation)
NoFrameFlags ==
    [tag_alter_preservation |-> FALSE, file_alter_preservation |-> FALSE]

\* Frame::new(id): a frame with a fresh identity, no contents, offset 0
FrameNew(id, uuid) ==
    [uuid |-> uuid, id |-> id, encoding |-> UTF16, contents |-> UnknownContent(<<>>),
     flags |-> NoFrameFlags, offset |-> 0]

\* the two flag bytes of a frame header: v2.3 keeps the preservation bits in
\* bits 7/6 of the status byte, v2.4 in bits 6/5
FrameFlagBytes(flags, version) ==
    LET tap == IF flags.tag_alter_preservation THEN 1 ELSE 0
        fap == IF flags.file_alter_preservation THEN 1 ELSE 0
    IN  IF version = 3 THEN <<128 * tap + 64 * fap, 0>>
        ELSE <<64 * tap + 32 * fap, 0>>

FrameFlagsOf(bytes, version) ==
    IF version = 3
    THEN [tag_alter_preservation  |-> (bytes[1] \div 128) % 2 = 1,
          file_alter_preservation |-> (bytes[1] \div 64) % 2 = 1]
    ELSE [tag_alter_preservation  |-> (bytes[1] \div 64) % 2 = 1,
          file_alter_preservation |-> (bytes[1] \div 32) % 2 = 1]

\* compression, encryption or unsynchronization on a frame: unsupported
FrameUnsupported(bytes, version) ==
    IF version = 3
    THEN (bytes[2] \div 128) % 2 = 1 \/ (bytes[2] \div 64) % 2 = 1
    ELSE (bytes[2] \div 8) % 2 = 1 \/ (bytes[2] \div 4) % 2 = 1
         \/ (bytes[2] \div 2) % 2 = 1

\* the language code written for COMM / USLT ("eng")
Lang == <<101, 110, 103>>

\* the payload of a frame
ContentBytes(f) ==
    LET c == f.contents
        e == f.encoding
    IN  CASE c.variant = "Text" -> <<e>> \o encode(c.text, e)
          [] c.variant = "ExtendedText" ->
                <<e>> \o encode_terminated(c.key, e) \o encode(c.value, e)
          [] c.variant = "Comment" ->
                <<e>> \o Lang \o encode_terminated(c.key, e) \o encode(c.value, e)
          [] c.variant = "Lyrics" ->
                <<e>> \o Lang \o encode_terminated(<<>>, e) \o encode(c.text, e)
          [] c.variant = "Picture" ->
                <<e>> \o c.mime_type \o <<0>> \o <<c.picture_type>>
                \o encode_terminated(c.description, e) \o c.data
          [] OTHER -> c.data

\* the four size bytes of a frame header: plain in v2.3, synchsafe in v2.4
FrameSizeBytes(n, version) ==
    IF version = 3 THEN be_u32(n) ELSE be_u32(synchsafe(n))

FrameSizeOf(bytes, version) ==
    IF version = 3 THEN from_be_u32(bytes) ELSE read_synchsafe(bytes)

\* Frame::to_bytes(version): header (identifier, size, flags) and payload
to_bytes(f, version) ==
    LET payload == ContentBytes(f)
    IN  f.id \o FrameSizeBytes(Len(payload), version)
        \o FrameFlagBytes(f.flags, version) \o payload

\* the decoded payload of a frame read from a file, by identifier:
\* [ok, encoding, contents]
ParseContents(id, payload) ==
    LET e    == IF payload = <<>> THEN Latin1 ELSE payload[1]
        rest == Drop(payload, 1)
        bad  == [ok |-> FALSE, encoding |-> Latin1, contents |-> UnknownContent(<<>>)]
        good(c) == [ok |-> TRUE, encoding |-> e, contents |-> c]
    IN  IF id = APIC THEN
            LET m == split_once_null(rest, Latin1)
                d == split_once_null(Drop(m[3], 1), e)
                desc == decode(d[2], e)
            IN  IF payload = <<>> \/ e > UTF8 \/ ~m[1] \/ m[3] = <<>> \/ ~d[1]
                   \/ ~DecodeOk(desc)
                THEN bad
                ELSE good(PictureContent(m[2], m[3][1], desc, d[3]))
        ELSE IF id = COMM \/ id = USLT \/ id = TXXX THEN
            LET body == IF id = TXXX THEN rest ELSE Drop(rest, 3)
                d == split_once_null(body, e)
                k == decode(d[2], e)
                v == TrimNulls(decode(d[3], e))
            IN  IF payload = <<>> \/ e > UTF8 \/ ~d[1] \/ ~DecodeOk(k) \/ ~DecodeOk(v)
                   \/ (id # TXXX /\ Len(rest) < 3)
                THEN bad
                ELSE IF id = TXXX THEN good(ExtendedTextContent(k, v))
                ELSE IF id = COMM THEN good(CommentContent(k, v))
                ELSE good(LyricsContent(v))
        ELSE IF id[1] = 84 THEN
            LET t == TrimNulls(decode(rest, e))
            IN  IF payload = <<>> \/ e > UTF8 \/ ~DecodeOk(t) THEN bad
                ELSE good(TextContent(t))
        ELSE [ok |-> TRUE, encoding |-> UTF16, contents |-> UnknownContent(payload)]

\* the v2.4 identifier a v2.2 identifier is read as ("TT2" -> "TIT2",
\* "TP1" -> "TPE1", "TAL" -> "TALB"); another identifier is kept as it is
convert_id_2_to_3(id) ==
    CASE id = <<84, 84, 50>> -> TIT2
      [] id = <<84, 80, 49>> -> TPE1
      [] id = <<84, 65, 76>> -> TALB
      [] OTHER -> id

\* Frame::read(version, file) at file position pos.  The header is a four
\* byte identifier, four size bytes and two flag bytes in v2.3 / v2.4, and a
\* three byte identifier and three size bytes (big-endian), no flags, in v2.2.
\*   kind "padding"     an all-zero identifier; the position stays at the
\*                      first byte after the last frame
\*   kind "unsupported" compression, encryption or unsynchronization on the
\*                      frame; the frame is passed over
\*   kind "io" / "invalid"  the header or the payload cannot be read / decoded
\*                      (a v2.3 size of 2^31 or more reaches past every file)
\*   kind "frame"       the frame, with its offset and a fresh identity
FrameRead(version, file, pos, uuid) ==
    LET none == FrameNew(<<0, 0, 0, 0>>, uuid)
        res(kind, f, next) == [kind |-> kind, frame |-> f, next |-> next]
        idlen == IF version = 2 THEN 3 ELSE 4
        hdr   == IF version = 2 THEN 6 ELSE 10
    IN  IF Len(file) < pos + idlen THEN res("io", none, pos)
        ELSE LET raw == SubSeq(file, pos + 1, pos + idlen)
                 id  == IF version = 2 THEN convert_id_2_to_3(raw) ELSE raw
             IN  IF raw = Zeros(idlen) THEN res("padding", none, pos)
                 ELSE IF Len(file) < pos + hdr THEN res("io", none, pos)
                 ELSE IF version = 3 /\ file[pos + 5] >= 128 THEN res("io", none, pos)
                 ELSE LET size == IF version = 2
                                  THEN from_be_u32(<<0>> \o SubSeq(file, pos + 4, pos + 6))
                                  ELSE FrameSizeOf(SubSeq(file, pos + 5, pos + 8), version)
                          fb   == IF version = 2 THEN <<0, 0>>
                                  ELSE SubSeq(file, pos + 9, pos + 10)
                          next == pos + hdr + size
                      IN  IF Len(file) - (pos + hdr) < size THEN res("io", none, pos)
                          ELSE IF FrameUnsupported(fb, version)
                          THEN res("unsupported", none, next)
                          ELSE LET p == ParseContents(id, SubSeq(file, pos + hdr + 1, next))
                               IN  IF ~p.ok THEN res("invalid", none, next)
                                   ELSE res("frame",
                                            [uuid |-> uuid, id |-> id,
                                             encoding |-> p.encoding,
                                             contents |-> p.contents,
                                             flags |-> FrameFlagsOf(fb, version),
                                             offset |-> pos],
                                            next)

(***************************************************************************)
(* The tag container (ID3Tag).  A tag is a record with the fields of the   *)
(* struct; path is <<>> for None and <<p>> for Some(p).                    *)
(***************************************************************************)
\* TagFlags::new()
TagFlagsNew ==
    [unsynchronization |-> FALSE, extended_header |-> FALSE, experimental |-> FALSE,
     footer |-> FALSE, compression |-> FALSE]

\* to_bytes with the compression flag written at bit 6 as well
TagFlags_to_bytes_all(fl) ==
    << (IF fl.unsynchronization THEN 128 ELSE 0)
     + (IF fl.extended_header \/ fl.compression THEN 64 ELSE 0)
     + (IF fl.experimental THEN 32 ELSE 0)
     + (IF fl.footer THEN 16 ELSE 0) >>

\* TagFlags::to_bytes
TagFlags_to_bytes(fl) ==
    << (IF fl.unsynchronization THEN 128 ELSE 0)
     + (IF fl.extended_header THEN 64 ELSE 0)
     + (IF fl.experimental THEN 32 ELSE 0)
     + (IF fl.footer THEN 16 ELSE 0) >>

\* ID3Tag::new()
new ==
    [path |-> <<>>, version |-> <<4, 0>>, size |-> 0, offset |-> 0,
     modified_offset |-> 0, flags |-> TagFlagsNew, frames |-> <<>>, rewrite |-> FALSE]

\* ID3Tag::with_version(version)
with_version(v) == [new EXCEPT !.version = <<v, 0>>]

default_encoding(t) == IF t.version[1] >= 4 THEN UTF8 ELSE UTF16

\* get_frame_by_id: the first frame with the identifier, as a sequence of
\* at most one frame
get_frame_by_id(t, id) ==
    LET m == SelectSeq(t.frames, LAMBDA f : f.id = id)
    IN  IF m = <<>> THEN <<>> ELSE <<m[1]>>

get_frames_by_id(t, id) == SelectSeq(t.frames, LAMBDA f : f.id = id)

\* add_frame that leaves the offset of the given frame as it is
add_frame_keeps_offset(t, frame, uuid) ==
    [t EXCEPT !.frames = Append(@, [frame EXCEPT !.uuid = uuid])]

\* add_frame: a fresh identity, offset 0, appended
add_frame(t, frame, uuid) ==
    [t EXCEPT !.frames = Append(@, [frame EXCEPT !.uuid = uuid, !.offset = 0])]

\* the closure set_modified_offset of the removing operations
set_modified_offset(m, o) == IF (m = 0 \/ o < m) /\ o # 0 THEN o ELSE m

RECURSIVE FoldOffsets(_, _, _)
\* the local modified_offset after set_modified_offset was called, in list
\* order, on every frame that is noted (noted[i] tells it of frames[i])
FoldOffsets(frames, noted, m) ==
    IF frames = <<>> THEN m
    ELSE FoldOffsets(Tail(frames), Tail(noted),
                     IF Head(noted)
                     THEN set_modified_offset(m, Head(frames).offset) ELSE m)

\* the end of every removing operation: the watermark moves down to the
\* local modified_offset when that is non-zero and smaller
LowerWatermark(t, m) ==
    IF m # 0 /\ m < t.modified_offset THEN [t EXCEPT !.modified_offset = m] ELSE t

\* remove_frame_by_uuid
remove_frame_by_uuid(t, uuid) ==
    LET hit == {i \in 1..Len(t.frames) : t.frames[i].uuid = uuid}
    IN  IF hit = {} THEN t
        ELSE LET i == CHOOSE k \in hit : \A j \in hit : k <= j
                 o == t.frames[i].offset
                 kept == [k \in 1..(Len(t.frames) - 1) |->
                             IF k < i THEN t.frames[k] ELSE t.frames[k + 1]]
             IN  [t EXCEPT !.modified_offset =
                               IF o # 0 /\ o < @ THEN o ELSE @,
                           !.frames = kept]

\* remove_frames_by_id that forgets to remove
remove_frames_by_id_none(t, id) == t

\* remove_frames_by_id
remove_frames_by_id(t, id) ==
    LET m == FoldOffsets(t.frames, [i \in 1..Len(t.frames) |-> t.frames[i].id = id], 0)
    IN  LowerWatermark([t EXCEPT !.frames = SelectSeq(@, LAMBDA f : f.id # id)], m)

\* add_text_frame_enc
add_text_frame_enc(t, id, text, enc, uuid) ==
    add_frame(remove_frames_by_id(t, id),
              [FrameNew(id, uuid) EXCEPT !.encoding = enc,
                                         !.contents = TextContent(text)],
              uuid)

\* add_text_frame
add_text_frame(t, id, text, uuid) ==
    add_text_frame_enc(t, id, text, default_encoding(t), uuid)

\* text_for_frame_id: <<>> for None, <<text>> for Some(text)
text_for_frame_id(t, id) ==
    LET f == get_frame_by_id(t, id)
    IN  IF f # <<>> /\ f[1].contents.variant = "Text" THEN <<f[1].contents.text>>
        ELSE <<>>

\* KeyedMatch that looks at the identifier alone
KeyedMatchById(f, id, variant, key, value) == f.id = id

\* KeyedMatch that keeps the frames it cannot parse
KeyedMatchParsed(f, id, variant, key, value) ==
    /\ f.id = id
    /\ f.contents.variant = variant
    /\ (key = <<>> \/ key[1] = f.contents.key)
    /\ (value = <<>> \/ value[1] = f.contents.value)

\* the match of remove_txxx / remove_comment on one frame: key_match && value_match
KeyedMatch(f, id, variant, key, value) ==
    /\ f.id = id
    /\ IF f.contents.variant = variant
       THEN /\ (key = <<>> \/ key[1] = f.contents.key)
            /\ (value = <<>> \/ value[1] = f.contents.value)
       ELSE TRUE

\* remove_txxx(key, value): key, value are <<>> (None) or <<s>> (Some(s))
remove_txxx(t, key, value) ==
    LET hit(f) == KeyedMatch(f, TXXX, "ExtendedText", key, value)
        m == FoldOffsets(t.frames, [i \in 1..Len(t.frames) |-> hit(t.frames[i])], 0)
    IN  LowerWatermark([t EXCEPT !.frames = SelectSeq(@, LAMBDA f : ~hit(f))], m)

\* remove_comment(key, value)
remove_comment(t, key, value) ==
    LET hit(f) == KeyedMatch(f, COMM, "Comment", key, value)
        m == FoldOffsets(t.frames, [i \in 1..Len(t.frames) |-> hit(t.frames[i])], 0)
    IN  LowerWatermark([t EXCEPT !.frames = SelectSeq(@, LAMBDA f : ~hit(f))], m)

\* txxx(): the key / value pairs of the TXXX frames with ExtendedText contents
txxx(t) ==
    LET m == SelectSeq(t.frames,
                       LAMBDA f : f.id = TXXX /\ f.contents.variant = "ExtendedText")
    IN  [i \in 1..Len(m) |-> <<m[i].contents.key, m[i].contents.value>>]

\* comments()
comments(t) ==
    LET m == SelectSeq(t.frames,
                       LAMBDA f : f.id = COMM /\ f.contents.variant = "Comment")
    IN  [i \in 1..Len(m) |-> <<m[i].contents.key, m[i].contents.value>>]

\* add_txxx_enc
add_txxx_enc(t, key, value, enc, uuid) ==
    add_frame(remove_txxx(t, <<key>>, <<>>),
              [FrameNew(TXXX, uuid) EXCEPT !.encoding = enc,
                                           !.contents = ExtendedTextContent(key, value)],
              uuid)

\* add_txxx
add_txxx(t, key, value, uuid) == add_txxx_enc(t, key, value, default_encoding(t), uuid)

\* add_comment_enc
add_comment_enc(t, description, text, enc, uuid) ==
    add_frame(remove_comment(t, <<description>>, <<>>),
              [FrameNew(COMM, uuid) EXCEPT !.encoding = enc,
                                           !.contents = CommentContent(description, text)],
              uuid)

\* add_comment
add_comment(t, description, text, uuid) ==
    add_comment_enc(t, description, text, default_encoding(t), uuid)

\* pictures(): the APIC frames with Picture contents
pictures(t) ==
    SelectSeq(t.frames, LAMBDA f : f.id = APIC /\ f.contents.variant = "Picture")

\* remove_picture_type with the comparison of the types inverted
remove_picture_type_inverted(t, picture_type) ==
    LET noted(f) == /\ f.id = APIC
                    /\ f.contents.variant = "Picture"
                    /\ f.contents.picture_type # picture_type
        keep(f) == IF f.id = APIC
                   THEN IF f.contents.variant = "Picture"
                        THEN f.contents.picture_type = picture_type
                        ELSE FALSE
                   ELSE TRUE
        m == FoldOffsets(t.frames, [i \in 1..Len(t.frames) |-> noted(t.frames[i])], 0)
    IN  LowerWatermark([t EXCEPT !.frames = SelectSeq(@, keep)], m)

\* remove_picture_type: an APIC frame whose contents are no picture is dropped
\* by the early `return false`, before set_modified_offset is reached
remove_picture_type(t, picture_type) ==
    LET noted(f) == /\ f.id = APIC
                    /\ f.contents.variant = "Picture"
                    /\ f.contents.picture_type = picture_type
        keep(f) == IF f.id = APIC
                   THEN IF f.contents.variant = "Picture"
                        THEN f.contents.picture_type # picture_type
                        ELSE FALSE
                   ELSE TRUE
        m == FoldOffsets(t.frames, [i \in 1..Len(t.frames) |-> noted(t.frames[i])], 0)
    IN  LowerWatermark([t EXCEPT !.frames = SelectSeq(@, keep)], m)

\* add_picture_enc
add_picture_enc(t, mime_type, picture_type, description, data, enc, uuid) ==
    add_frame(remove_picture_type(t, picture_type),
              [FrameNew(APIC, uuid) EXCEPT
                   !.encoding = enc,
                   !.contents = PictureContent(mime_type, picture_type, description, data)],
              uuid)

\* add_picture
add_picture(t, mime_type, picture_type, data, uuid) ==
    add_picture_enc(t, mime_type, picture_type, <<>>, data, Latin1, uuid)

\* set_lyrics_enc
set_lyrics_enc(t, text, enc, uuid) ==
    add_frame(remove_frames_by_id(t, USLT),
              [FrameNew(USLT, uuid) EXCEPT !.encoding = enc,
                                           !.contents = LyricsContent(text)],
              uuid)

\* the AudioTag setters and removers of tag.rs that the model exercises
set_artist(t, artist, uuid) == add_text_frame(t, TPE1, artist, uuid)

set_title(t, title, uuid) == add_text_frame(t, TIT2, title, uuid)

set_album(t, album, uuid) == add_text_frame(remove_frames_by_id(t, TSOP), TALB, album, uuid)

set_album_artist(t, album_artist, uuid) == add_text_frame(t, TPE2, album_artist, uuid)

set_album_artist_enc(t, album_artist, enc, uuid) ==
    add_text_frame_enc(remove_frames_by_id(t, TSOP), TPE2, album_artist, enc, uuid)

set_album_enc(t, album, enc, uuid) == add_text_frame_enc(t, TALB, album, enc, uuid)

set_artist_enc(t, artist, enc, uuid) == add_text_frame_enc(t, TPE1, artist, enc, uuid)

set_title_enc(t, title, enc, uuid) ==
    add_text_frame_enc(remove_frames_by_id(t, TSOT), TIT2, title, enc, uuid)

set_genre_enc(t, genre, enc, uuid) == add_text_frame_enc(t, TCON, genre, enc, uuid)

set_genre(t, genre, uuid) == add_text_frame(t, TCON, genre, uuid)

remove_album(t) == remove_frames_by_id(remove_frames_by_id(t, TSOP), TALB)

set_lyrics(t, text, uuid) == set_lyrics_enc(t, text, default_encoding(t), uuid)

remove_picture(t) == remove_frames_by_id(t, APIC)

\* set_picture that clears only the pictures of the type it adds
set_picture_of_type(t, mime_type, data, uuid) ==
    add_picture(t, mime_type, Other, data, uuid)

set_picture(t, mime_type, data, uuid) ==
    add_picture(remove_picture(t), mime_type, Other, data, uuid)

(***************************************************************************)
(* The track number and the total number of tracks (TRCK).  An Option is   *)
(* <<>> for None and <<x>> for Some(x).                                    *)
(***************************************************************************)
RECURSIVE splitn(_, _, _)
\* text.splitn(count, sep) of the standard library the source is written
\* for: the text is split at most count times, so it gives up to count + 1
\* pieces
splitn(count, sep, text) ==
    LET k == CHOOSE i \in 1..(Len(text) + 1) :
                 /\ i = Len(text) + 1 \/ text[i] = sep
                 /\ \A j \in 1..(i - 1) : text[j] # sep
    IN  IF count = 0 \/ k > Len(text) THEN <<text>>
        ELSE <<SubSeq(text, 1, k - 1)>> \o splitn(count - 1, sep, Drop(text, k))

RECURSIVE DigitsValue(_, _)
\* the number a run of decimal digits spells, after acc
DigitsValue(text, acc) ==
    IF text = <<>> THEN acc
    ELSE DigitsValue(Tail(text), acc * 10 + (Head(text) - 48))

\* from_str::<u32>: a non-empty run of decimal digits is a number (the texts
\* of the model stay far below 2^32)
from_str(text) ==
    IF text # <<>> /\ \A i \in 1..Len(text) : text[i] \in 48..57
    THEN <<DigitsValue(text, 0)>>
    ELSE <<>>

RECURSIVE format(_)
\* format!("{}", n) of a number
format(n) == IF n < 10 THEN <<48 + n>> ELSE format(n \div 10) \o <<48 + (n % 10)>>

\* track_pair: None, or Some((track, total_tracks)) with total_tracks an Option
track_pair(t) ==
    LET f == get_frame_by_id(t, TRCK)
        split == splitn(2, 47, f[1].contents.text)
        total == IF Len(split) = 2 THEN from_str(split[2]) ELSE <<>>
        track == from_str(split[1])
    IN  IF f = <<>> THEN <<>>
        ELSE IF f[1].contents.variant # "Text" THEN <<>>
        ELSE IF Len(split) = 2 /\ total = <<>> THEN <<>>
        ELSE IF track = <<>> THEN <<>>
        ELSE << <<track[1], total>> >>

\* track()
track(t) == IF track_pair(t) = <<>> THEN <<>> ELSE <<track_pair(t)[1][1]>>

\* total_tracks()
total_tracks(t) == IF track_pair(t) = <<>> THEN <<>> ELSE track_pair(t)[1][2]

\* set_track_enc
set_track_enc(t, n, enc, uuid) ==
    add_text_frame_enc(t, TRCK,
                       IF total_tracks(t) # <<>>
                       THEN format(n) \o <<47>> \o format(total_tracks(t)[1])
                       ELSE format(n),
                       enc, uuid)

\* set_total_tracks_enc
set_total_tracks_enc(t, n, enc, uuid) ==
    add_text_frame_enc(t, TRCK,
                       IF track_pair(t) # <<>>
                       THEN format(track(t)[1]) \o <<47>> \o format(n)
                       ELSE <<49, 47>> \o format(n),
                       enc, uuid)

set_track(t, n, uuid) == set_track_enc(t, n, Latin1, uuid)

set_total_tracks(t, n, uuid) == set_total_tracks_enc(t, n, Latin1, uuid)

\* set_year_enc: the text of the TYER frame is the number as format! prints it
set_year_enc(t, year, enc, uuid) == add_text_frame_enc(t, TYER, format(year), enc, uuid)

set_year(t, year, uuid) == add_text_frame_enc(t, TYER, format(year), Latin1, uuid)

\* remove_total_tracks: the bare track number goes into a TALB text frame
remove_total_tracks(t, uuid) ==
    IF track_pair(t) # <<>> THEN add_text_frame(t, TALB, format(track(t)[1]), uuid)
    ELSE t

(***************************************************************************)
(* The load / save engine.  A file is the sequence of its bytes; file      *)
(* positions count from 0, so position p is element p + 1.                 *)
(***************************************************************************)
\* the padding written by a full rewrite (let padding_bytes = 2048)
padding_bytes == 2048

\* an empty discard list
DEFAULT_FILE_DISCARD_none == {}

\* the identifiers a rewrite to another file discards
DEFAULT_FILE_DISCARD ==
    { <<65, 69, 78, 67>>, <<69, 84, 67, 79>>, <<69, 81, 85, 65>>, <<77, 76, 76, 84>>,
      <<80, 79, 83, 83>>, <<83, 89, 76, 84>>, <<83, 89, 84, 67>>, <<82, 86, 65, 68>>,
      <<84, 69, 78, 67>>, TLEN, <<84, 83, 73, 90>> }

RECURSIVE LoadFrames(_, _, _, _, _, _)
\* the frame loop of load with an unsupported frame ending the load like any
\* other error
LoadFramesStrict(version, file, pos, limit, frames, uuid) ==
    IF ~(pos < limit) THEN [err |-> "", frames |-> frames, pos |-> pos, uuid |-> uuid]
    ELSE LET r == FrameRead(version, file, pos, uuid)
         IN  IF r.kind = "frame"
             THEN LoadFrames(version, file, r.next, limit, Append(frames, r.frame), uuid + 1)
             ELSE IF r.kind = "padding"
             THEN [err |-> "", frames |-> frames, pos |-> pos, uuid |-> uuid]
             ELSE [err |-> IF r.kind = "io" THEN "Io"
                           ELSE IF r.kind = "unsupported" THEN "UnsupportedFeature"
                           ELSE "InvalidInput",
                   frames |-> frames, pos |-> pos, uuid |-> uuid]

\* the frame loop of load: while file.tell() < tag.size + 10, read a frame;
\* padding ends the loop, an unsupported frame is passed over, any other
\* error ends the load.  [err, frames, pos, uuid]
LoadFrames(version, file, pos, limit, frames, uuid) ==
    IF ~(pos < limit) THEN [err |-> "", frames |-> frames, pos |-> pos, uuid |-> uuid]
    ELSE LET r == FrameRead(version, file, pos, uuid)
         IN  IF r.kind = "frame"
             THEN LoadFrames(version, file, r.next, limit, Append(frames, r.frame), uuid + 1)
             ELSE IF r.kind = "padding"
             THEN [err |-> "", frames |-> frames, pos |-> pos, uuid |-> uuid]
             ELSE IF r.kind = "unsupported"
             THEN LoadFrames(version, file, r.next, limit, frames, uuid)
             ELSE [err |-> IF r.kind = "io" THEN "Io" ELSE "InvalidInput",
                   frames |-> frames, pos |-> pos, uuid |-> uuid]

\* LoadedTag with the watermark put at the end of the tag region instead of
\* at the position after the last frame
LoadedTagAtEnd(path, vers, size, fl, frames, pos) ==
    [path |-> <<path>>, version |-> IF vers[1] = 2 THEN <<4, 0>> ELSE vers,
     size |-> size, offset |-> pos, modified_offset |-> size + 10, flags |-> fl,
     frames |-> frames, rewrite |-> vers[1] = 2]

\* LoadedTag with the version of the file kept and no rewrite asked for
LoadedTagSameVersion(path, vers, size, fl, frames, pos) ==
    [path |-> <<path>>, version |-> vers,
     size |-> size, offset |-> pos, modified_offset |-> pos, flags |-> fl,
     frames |-> frames, rewrite |-> FALSE]

\* the end of load: a v2.2 tag becomes v2.4 with the rewrite flag set; offset
\* and modified_offset are the file position after the frame loop
LoadedTag(path, vers, size, fl, frames, pos) ==
    [path |-> <<path>>, version |-> IF vers[1] = 2 THEN <<4, 0>> ELSE vers,
     size |-> size, offset |-> pos, modified_offset |-> pos, flags |-> fl,
     frames |-> frames, rewrite |-> vers[1] = 2]

\* the version check of load with every major version let through
SupportedVersionAny(major) == TRUE

\* the version check of load (tag.version[0] is 2, 3 or 4)
SupportedVersion(major) == major = 2 \/ major = 3 \/ major = 4

\* the flags byte read with bit 6 as the extended header in v2.2 too
ReadTagFlagsAlike(major, fb) ==
    [unsynchronization |-> (fb \div 128) % 2 = 1,
     extended_header   |-> (fb \div 64) % 2 = 1,
     experimental      |-> (fb \div 32) % 2 = 1,
     footer            |-> (fb \div 16) % 2 = 1,
     compression       |-> FALSE]

\* the flags byte of the header as load reads it: bit 6 is compression in
\* v2.2 and the extended header in v2.3 / v2.4
ReadTagFlags(major, fb) ==
    [unsynchronization |-> (fb \div 128) % 2 = 1,
     extended_header   |-> major # 2 /\ (fb \div 64) % 2 = 1,
     experimental      |-> major # 2 /\ (fb \div 32) % 2 = 1,
     footer            |-> major # 2 /\ (fb \div 16) % 2 = 1,
     compression       |-> major = 2 /\ (fb \div 64) % 2 = 1]

\* AudioTag::load(path) on the bytes of the file: [err, msg, tag, uuid]; err
\* is "" for Ok(tag), else the kind of the error, and msg its description
\* where load itself makes the error
load(path, file, uuid) ==
    LET fail(kind, msg) == [err |-> kind, msg |-> msg, tag |-> new, uuid |-> uuid]
        major == file[4]
        \* file.read(tag.version) fills what the file still holds
        vers  == IF Len(file) >= 5 THEN <<file[4], file[5]>> ELSE <<file[4], 0>>
        fl    == ReadTagFlags(major, file[6])
        size  == read_synchsafe(SubSeq(file, 7, 10))
        start == IF fl.extended_header
                 THEN 14 + read_synchsafe(SubSeq(file, 11, 14))
                 ELSE 10
    IN  IF Len(file) < 3 THEN fail("Io", "")
        ELSE IF SubSeq(file, 1, 3) # ID3
        THEN fail("InvalidInput", "file does not contain an id3 tag")
        ELSE IF Len(file) < 4 THEN fail("Io", "")
        ELSE IF ~SupportedVersion(major)
        THEN fail("InvalidInput", "unsupported id3 tag version")
        ELSE IF Len(file) < 6 THEN fail("Io", "")
        ELSE IF fl.unsynchronization
        THEN fail("UnsupportedFeature", "unsynchronization is not supported")
        ELSE IF fl.compression
        THEN fail("UnsupportedFeature", "id3v2.2 compression is not supported")
        ELSE IF Len(file) < 10 THEN fail("Io", "")
        ELSE IF fl.extended_header /\ Len(file) < 14 THEN fail("Io", "")
        ELSE LET r == LoadFrames(major, file, start, size + 10, <<>>, uuid)
             IN  IF r.err # "" THEN fail(r.err, "")
                 ELSE [err |-> "", msg |-> "",
                       tag |-> LoadedTag(path, vers, size, fl, r.frames, r.pos),
                       uuid |-> r.uuid]

\* skip_metadata that seeks to the size of the tag, the header not counted
skip_metadata_from_size(file) ==
    IF Len(file) < 3 THEN file
    ELSE IF SubSeq(file, 1, 3) = ID3
    THEN IF Len(file) < 10 THEN file
         ELSE Drop(file, read_synchsafe(SubSeq(file, 7, 10)))
    ELSE file

\* AudioTag::skip_metadata on the bytes of the file.  try_io! answers an
\* error by seeking to 0 and reading the whole file.
skip_metadata(file) ==
    IF Len(file) < 3 THEN file
    ELSE IF SubSeq(file, 1, 3) = ID3
    THEN IF Len(file) < 10 THEN file
         ELSE Drop(file, 10 + read_synchsafe(SubSeq(file, 7, 10)))
    ELSE file

\* the I/O calls of skip_metadata that may fail when write calls it:
\* File::open; a read or a seek under try_io!, answered by a seek to 0 and a
\* read of the whole file (<<"skip_io", 0, 0>>); the same with the seek or
\* the read of that answer failing too (<<"skip_io", 1, 0>>)
SkipFailPoints == {<<"skip_open", 0, 0>>, <<"skip_io", 0, 0>>, <<"skip_io", 1, 0>>}

\* AudioTag::skip_metadata with the I/O call that fails (or none that the
\* bytes of the file do not cause) chosen by fail: an error is never
\* returned, the bytes given are none or the whole file
skip_metadata_failing(file, fail) ==
    IF fail = <<"skip_open", 0, 0>> THEN <<>>
    ELSE IF fail = <<"skip_io", 0, 0>> THEN file
    ELSE IF fail = <<"skip_io", 1, 0>> THEN <<>>
    ELSE skip_metadata(file)

\* AudioTag::is_candidate
is_candidate(file) == Len(file) >= 3 /\ SubSeq(file, 1, 3) = ID3

RECURSIVE SumFrameBytes(_, _)
\* new_size of write before the padding is added (a u32; the sizes of the
\* model stay far below 2^32, so the sum never wraps)
SumFrameBytes(frames, version) ==
    IF frames = <<>> THEN 0
    ELSE Len(to_bytes(Head(frames), version)) + SumFrameBytes(Tail(frames), version)

\* a write of data that fails may have written a part: Partial(data, k)
\* tells that a failure after k bytes is an outcome of the write, and
\* Take(data, k) are the bytes it wrote
Partial(data, k) == k = 0 \/ k < Len(data)

RECURSIVE WriteFrames(_, _, _, _, _, _, _, _)
\* the frame loop of either branch of write, from frame i on, at file position
\* pos: frame i is scheduled for removal when discard[i]; else, when emit[i],
\* file.tell() gives it pos as its offset and its bytes are written; the
\* others are left alone.  fail = <<"frame_tell", n, 0>>: the tell of the
\* n-th frame to write fails, the frame keeps its offset;
\* fail = <<"frame", n, k>>: its file.write fails after k of its bytes,
\* after the frame took its new offset.
\* [frames, removed, pos, file, failed, stopped]; stopped tells that the loop
\* was left by an error, failed is <<>> or holds the identity of the frame
\* whose write failed, pos is the position after the last byte written
WriteFrames(frames, i, pos, file, version, discard, emit, fail) ==
    IF i > Len(frames)
    THEN [frames |-> frames, removed |-> {}, pos |-> pos, file |-> file,
          failed |-> <<>>, stopped |-> FALSE]
    ELSE LET f == frames[i]
         IN  IF discard[i]
             THEN LET r == WriteFrames(frames, i + 1, pos, file, version,
                                       discard, emit, fail)
                  IN  [r EXCEPT !.removed = @ \cup {f.uuid}]
             ELSE IF emit[i]
             THEN LET moved == [frames EXCEPT ![i].offset = pos]
                      later == IF fail[1] \in {"frame_tell", "frame"}
                               THEN <<fail[1], fail[2] - 1, fail[3]>> ELSE fail
                      put(data) ==
                          IF fail[1] = "frame" /\ fail[2] = 1 /\ Partial(data, fail[3])
                          THEN [frames |-> moved, removed |-> {}, pos |-> pos + fail[3],
                                file |-> WriteAt(file, pos, Take(data, fail[3])),
                                failed |-> <<f.uuid>>, stopped |-> TRUE]
                          ELSE WriteFrames(moved, i + 1, pos + Len(data),
                                           WriteAt(file, pos, data), version,
                                           discard, emit, later)
                  IN  IF fail[1] = "frame_tell" /\ fail[2] = 1
                      THEN [frames |-> frames, removed |-> {}, pos |-> pos,
                            file |-> file, failed |-> <<>>, stopped |-> TRUE]
                      ELSE put(to_bytes(f, version))
             ELSE WriteFrames(frames, i + 1, pos, file, version, discard, emit, fail)

\* the bytes of the padding at which the model lets a write stop
PaddingStops == {0, 1, padding_bytes - 1}

\* the bytes of a header, frame or body write after which the model lets
\* the write stop
PartialStops == {0, 1}

\* the most bytes a failing write has written, among the fail points named
MaxWriteLen == 64

\* no I/O call of write fails
NoFail == <<"none", 0, 0>>

\* the I/O calls of write that may fail, <<site, n, k>>: open_mode; the n-th
\* of the four writes of the header, after k of its bytes; the seek of the
\* overwrite branch; the tell of the n-th frame written; the write of the
\* n-th frame written, after k of its bytes; the tell after the loop; the
\* write_u8 of the padding or fill byte that comes after n bytes; the write
\* of the audio body, after k of its bytes; and the calls inside
\* skip_metadata, whose failure write does not see.  A point whose call the
\* write does not make, or whose k the data of the call does not reach, is
\* no failure of that write.
FailPoints ==
    {NoFail, <<"open", 0, 0>>, <<"seek", 0, 0>>, <<"tell", 0, 0>>}
    \cup SkipFailPoints
    \cup {<<"header", n, k>> : n \in 1..4, k \in 0..3}
    \cup {<<"frame_tell", n, 0>> : n \in 1..MaxFrames}
    \cup {<<"frame", n, k>> : n \in 1..MaxFrames, k \in 0..MaxWriteLen}
    \cup {<<"padding", n, 0>> : n \in 0..(padding_bytes - 1)}
    \cup {<<"body", 0, k>> : k \in 0..MaxWriteLen}

\* the fail points a failing save of the model is drawn from: a write stops
\* after the bytes of PartialStops, the padding after those of PaddingStops
ExploredFailPoints ==
    {fail \in FailPoints :
        /\ fail[1] \in {"header", "frame", "body"} => fail[3] \in PartialStops
        /\ fail[1] = "padding" => fail[2] \in PaddingStops}

\* WritePlan without the comparison of the size of the frames with tag.size
WritePlanForcedOnly(t, path) ==
    LET file_changed == t.path = <<>> \/ t.path[1] # path
        forced   == t.rewrite \/ file_changed \/ t.flags.extended_header
        t1       == IF forced
                    THEN [t EXCEPT !.flags.extended_header = FALSE, !.version = <<4, 0>>]
                    ELSE t
        t2       == [t1 EXCEPT !.path = <<path>>]
        new_size == SumFrameBytes(t2.frames, t2.version[1])
    IN  [file_changed |-> file_changed, rewrite |-> forced,
         new_size |-> new_size + padding_bytes, tag |-> t2]

\* WritePlan leaving the extended_header flag as it is
WritePlanKeepsExtendedHeader(t, path) ==
    LET file_changed == t.path = <<>> \/ t.path[1] # path
        forced   == t.rewrite \/ file_changed \/ t.flags.extended_header
        t1       == IF forced THEN [t EXCEPT !.version = <<4, 0>>] ELSE t
        t2       == [t1 EXCEPT !.path = <<path>>]
        new_size == SumFrameBytes(t2.frames, t2.version[1])
    IN  [file_changed |-> file_changed, rewrite |-> forced \/ new_size > t.size,
         new_size |-> new_size + padding_bytes, tag |-> t2]

\* the decision of write before any I/O: file_changed, the rewrite flag after
\* the size check, and the tag with path, version and extended_header set
WritePlan(t, path) ==
    LET file_changed == t.path = <<>> \/ t.path[1] # path
        forced   == t.rewrite \/ file_changed \/ t.flags.extended_header
        t1       == IF forced
                    THEN [t EXCEPT !.flags.extended_header = FALSE, !.version = <<4, 0>>]
                    ELSE t
        t2       == [t1 EXCEPT !.path = <<path>>]
        new_size == SumFrameBytes(t2.frames, t2.version[1])
    IN  [file_changed |-> file_changed, rewrite |-> forced \/ new_size > t.size,
         new_size |-> new_size + padding_bytes, tag |-> t2]

\* WriteRewrite taking the position of offset and modified_offset after the
\* padding loop instead of before it
WriteRewriteTellAfterPadding(plan, file, fail) ==
    LET t    == [plan.tag EXCEPT !.size = plan.new_size]
        data == skip_metadata_failing(file, fail)
        parts == <<ID3, t.version, TagFlags_to_bytes(t.flags), be_u32(synchsafe(t.size))>>
        head == parts[1] \o parts[2] \o parts[3] \o parts[4]
        written(n, k) == (IF n = 1 THEN <<>>
                          ELSE IF n = 2 THEN parts[1]
                          ELSE IF n = 3 THEN parts[1] \o parts[2]
                          ELSE parts[1] \o parts[2] \o parts[3])
                         \o Take(parts[n], k)
        discard(f) ==
            /\ f.offset # 0
            /\ \/ f.flags.tag_alter_preservation
               \/ /\ plan.file_changed
                  /\ \/ f.flags.file_alter_preservation
                     \/ f.id \in DEFAULT_FILE_DISCARD
        w    == WriteFrames(t.frames, 1, 10, head, t.version[1],
                            [i \in 1..Len(t.frames) |-> discard(t.frames[i])],
                            [i \in 1..Len(t.frames) |-> TRUE], fail)
        kept == SelectSeq(w.frames, LAMBDA f : f.uuid \notin w.removed)
        done == [t EXCEPT !.frames = kept, !.offset = w.pos + padding_bytes,
                          !.modified_offset = w.pos + padding_bytes]
        res(ok, tag, bytes) ==
            [ok |-> ok, branch |-> "rewrite", tag |-> tag, file |-> bytes,
             lo |-> 0, hi |-> Len(bytes), lost |-> w.failed]
    IN  IF fail[1] = "open" THEN [res(FALSE, t, file) EXCEPT !.hi = 0]
        ELSE IF fail[1] = "header" /\ fail[2] \in 1..4 /\ Partial(parts[fail[2]], fail[3])
        THEN res(FALSE, t, written(fail[2], fail[3]))
        ELSE IF w.stopped THEN res(FALSE, [t EXCEPT !.frames = w.frames], w.file)
        ELSE IF fail[1] = "tell" THEN res(FALSE, [t EXCEPT !.frames = kept], w.file)
        ELSE IF fail[1] = "padding" /\ fail[2] \in 0..(padding_bytes - 1)
        THEN res(FALSE, [t EXCEPT !.frames = kept], w.file \o Zeros(fail[2]))
        ELSE IF fail[1] = "body" /\ Partial(data, fail[3])
        THEN res(FALSE, done, w.file \o Zeros(padding_bytes) \o Take(data, fail[3]))
        ELSE res(TRUE, done, w.file \o Zeros(padding_bytes) \o data)

\* the full-rewrite branch of write
WriteRewrite(plan, file, fail) ==
    LET t    == [plan.tag EXCEPT !.size = plan.new_size]
        data == skip_metadata_failing(file, fail)
        parts == <<ID3, t.version, TagFlags_to_bytes(t.flags), be_u32(synchsafe(t.size))>>
        head == parts[1] \o parts[2] \o parts[3] \o parts[4]
        written(n, k) == (IF n = 1 THEN <<>>
                          ELSE IF n = 2 THEN parts[1]
                          ELSE IF n = 3 THEN parts[1] \o parts[2]
                          ELSE parts[1] \o parts[2] \o parts[3])
                         \o Take(parts[n], k)
        discard(f) ==
            /\ f.offset # 0
            /\ \/ f.flags.tag_alter_preservation
               \/ /\ plan.file_changed
                  /\ \/ f.flags.file_alter_preservation
                     \/ f.id \in DEFAULT_FILE_DISCARD
        w    == WriteFrames(t.frames, 1, 10, head, t.version[1],
                            [i \in 1..Len(t.frames) |-> discard(t.frames[i])],
                            [i \in 1..Len(t.frames) |-> TRUE], fail)
        kept == SelectSeq(w.frames, LAMBDA f : f.uuid \notin w.removed)
        done == [t EXCEPT !.frames = kept, !.offset = w.pos, !.modified_offset = w.pos]
        res(ok, tag, bytes) ==
            [ok |-> ok, branch |-> "rewrite", tag |-> tag, file |-> bytes,
             lo |-> 0, hi |-> Len(bytes), lost |-> w.failed]
    IN  IF fail[1] = "open" THEN [res(FALSE, t, file) EXCEPT !.hi = 0]
        ELSE IF fail[1] = "header" /\ fail[2] \in 1..4 /\ Partial(parts[fail[2]], fail[3])
        THEN res(FALSE, t, written(fail[2], fail[3]))
        ELSE IF w.stopped THEN res(FALSE, [t EXCEPT !.frames = w.frames], w.file)
        ELSE IF fail[1] = "tell" THEN res(FALSE, [t EXCEPT !.frames = kept], w.file)
        ELSE IF fail[1] = "padding" /\ fail[2] \in 0..(padding_bytes - 1)
        THEN res(FALSE, done, w.file \o Zeros(fail[2]))
        ELSE IF fail[1] = "body" /\ Partial(data, fail[3])
        THEN res(FALSE, done, w.file \o Zeros(padding_bytes) \o Take(data, fail[3]))
        ELSE res(TRUE, done, w.file \o Zeros(padding_bytes) \o data)

\* the partial-overwrite branch of write
WriteOverwrite(plan, file, fail) ==
    LET t    == plan.tag
        w    == WriteFrames(t.frames, 1, t.modified_offset, file, t.version[1],
                            [i \in 1..Len(t.frames) |->
                                t.frames[i].offset # 0
                                /\ t.frames[i].flags.tag_alter_preservation],
                            [i \in 1..Len(t.frames) |->
                                t.frames[i].offset = 0
                                \/ t.frames[i].offset > t.modified_offset],
                            fail)
        kept == SelectSeq(w.frames, LAMBDA f : f.uuid \notin w.removed)
        done == [t EXCEPT !.frames = kept, !.offset = w.pos, !.modified_offset = w.pos]
        fill == IF w.pos < t.offset THEN Zeros(t.offset - w.pos) ELSE <<>>
        res(ok, tag, bytes, hi) ==
            [ok |-> ok, branch |-> "overwrite", tag |-> tag, file |-> bytes,
             lo |-> t.modified_offset, hi |-> hi, lost |-> w.failed]
    IN  IF fail[1] \in {"open", "seek"} THEN res(FALSE, t, file, t.modified_offset)
        ELSE IF w.stopped
        THEN res(FALSE, [t EXCEPT !.frames = w.frames], w.file, w.pos)
        ELSE IF fail[1] = "tell" THEN res(FALSE, [t EXCEPT !.frames = kept], w.file, w.pos)
        ELSE IF fail[1] = "padding" /\ fail[2] \in 0..(Len(fill) - 1)
        THEN res(FALSE, done, WriteAt(w.file, w.pos, Zeros(fail[2])), w.pos + fail[2])
        ELSE res(TRUE, done, WriteAt(w.file, w.pos, fill), w.pos + Len(fill))

\* AudioTag::write(path) on the bytes of the file at path:
\* [ok, branch, tag, file, lo, hi, lost]; lo .. hi are the file positions
\* written, lost the identity of a frame whose write failed
write(t, path, file, fail) ==
    LET plan == WritePlan(t, path)
    IN  IF plan.rewrite THEN WriteRewrite(plan, file, fail)
        ELSE WriteOverwrite(plan, file, fail)

(***************************************************************************)
(* The files and the inputs the model explores.                            *)
(***************************************************************************)
\* the path the tag is loaded from and saved to
P == "a.mp3"

Paths == {P}

\* texts: "x", "new", keys "k1" "k2", values "v1" "v2", mime "image/png" as "p"
TxtX   == <<120>>
TxtNew == <<110, 101, 119>>
K1 == <<107, 49>>
K2 == <<107, 50>>
V1 == <<118, 49>>
V2 == <<118, 50>>
MimeJ == <<106>>
MimeP == <<112>>

\* the description "d" of a picture
Desc == <<100>>

\* the encodings a caller can name
Encodings == {Latin1, UTF16, UTF16BE, UTF8}

\* the audio body B of the initial files
Body == <<201, 202, 203>>

\* a file with a tag: header, the given frame bytes, npad zero bytes, the body
TaggedFile(major, frame_bytes, npad) ==
    ID3 \o <<major, 0>> \o <<0>> \o be_u32(synchsafe(Len(frame_bytes) + npad))
    \o frame_bytes \o Zeros(npad) \o Body

\* a frame as a file holds it
Stored(id, enc, contents, flags) ==
    [uuid |-> 0, id |-> id, encoding |-> enc, contents |-> contents, flags |-> flags,
     offset |-> 0]

\* a TCON frame whose format byte has the compression bit set
CompressedFrame(version) ==
    TCON \o FrameSizeBytes(9, version) \o <<0, IF version = 3 THEN 128 ELSE 8>>
    \o <<0, 0, 0, 5, 1, 2, 3, 4, 5>>

\* the initial files: a v2.4 tag with padding; a v2.3 tag that holds a
\* compressed frame and no padding; a v2.4 tag with a picture and a TXXX frame
\* that is to be dropped when the tag is altered; a file with no tag
InitialFiles ==
    { TaggedFile(4, to_bytes(Stored(TIT2, UTF8, TextContent(TxtNew), NoFrameFlags), 4), 30),
      TaggedFile(3, to_bytes(Stored(TPE1, Latin1, TextContent(TxtX), NoFrameFlags), 3)
                    \o CompressedFrame(3), 0),
      TaggedFile(4, to_bytes(Stored(APIC, Latin1,
                                    PictureContent(MimeJ, Other, <<>>, <<7>>),
                                    NoFrameFlags), 4)
                    \o to_bytes(Stored(TXXX, UTF8, ExtendedTextContent(K1, V1),
                                       [NoFrameFlags EXCEPT !.tag_alter_preservation = TRUE]),
                                4), 10),
      Body }

\* frames a caller hands to add_frame: an APIC frame whose contents were left
\* as raw bytes (they spell a picture of type CoverFront) and which carries an
\* offset, and a TXXX frame with raw contents
RawPicture ==
    [FrameNew(APIC, 0) EXCEPT
        !.contents = UnknownContent(<<Latin1>> \o MimeP \o <<0, CoverFront, 0, 9>>),
        !.offset = 77]

RawTxxx == [FrameNew(TXXX, 0) EXCEPT !.contents = UnknownContent(<<UTF8>> \o K2 \o <<0>> \o V2)]

\* a text frame built by the caller
GivenText == [FrameNew(TIT2, 0) EXCEPT !.encoding = Latin1, !.contents = TextContent(TxtNew)]

\* a COMM frame with raw contents
RawComm == [FrameNew(COMM, 0) EXCEPT !.contents = UnknownContent(<<UTF8, 101, 110, 103>> \o K2 \o <<0>> \o V2)]

GivenFrames == {RawPicture, RawTxxx, GivenText, RawComm}

(***************************************************************************)
(* The state machine.                                                      *)
(*   tag   the ID3Tag the caller holds                                     *)
(*   disk  the bytes of the file at each path                              *)
(*   uuid  the next fresh frame identity                                   *)
(*   hist  history: of the last operation (op, arg, ok, err, branch, the   *)
(*         file positions lo .. hi it wrote) and of the session: body (the *)
(*         bytes beyond the tag region at the last load), low (the         *)
(*         smallest non-zero offset of a frame removed since the last load *)
(*         or save, else the offset the load or save left; -1 before the   *)
(*         first load or save and after a failed save), fresh (identities  *)
(*         added and not yet written), failures (I/O calls that failed),   *)
(*         ops (operations performed), gone (frames the last operation     *)
(*         took out of the tag), skips (saves in which a call inside       *)
(*         skip_metadata failed)                                           *)
(***************************************************************************)
VARIABLES tag, disk, uuid, hist

vars == <<tag, disk, uuid, hist>>

hist0 ==
    [op |-> "new", arg |-> <<>>, ok |-> TRUE, err |-> "", branch |-> "",
     lo |-> 0, hi |-> 0, body |-> <<>>, low |-> -1, fresh |-> {}, failures |-> 0, ops |-> 0,
     gone |-> 0, skips |-> 0]

Init ==
    /\ tag = new
    /\ disk \in [Paths -> InitialFiles]
    /\ uuid = 1
    /\ hist = hist0

Uuids(t) == {t.frames[i].uuid : i \in 1..Len(t.frames)}

\* the smallest non-zero offset among the frames of t that t2 no longer
\* holds, or low when there is none
LowAfter(low, t, t2) ==
    LET gone == {t.frames[i].offset : i \in {k \in 1..Len(t.frames) :
                     t.frames[k].uuid \notin Uuids(t2) /\ t.frames[k].offset # 0}}
        all  == gone \cup {low}
    IN  IF low < 0 THEN low
        ELSE CHOOSE m \in all : \A o \in all : m <= o

\* a container operation op(arg) that takes the tag to t2
Mutate(op, arg, t2) ==
    /\ hist.ops < MaxOps
    /\ tag' = t2
    /\ uuid' = IF Uuids(t2) \subseteq Uuids(tag) THEN uuid ELSE uuid + 1
    /\ hist' = [hist EXCEPT !.op = op, !.arg = arg, !.ok = TRUE, !.err = "",
                            !.branch = "", !.lo = 0, !.hi = 0, !.ops = @ + 1,
                            !.gone = Cardinality(Uuids(tag) \ Uuids(t2)),
                            !.low = LowAfter(@, tag, t2),
                            !.fresh = (@ \cap Uuids(t2)) \cup (Uuids(t2) \ Uuids(tag))]
    /\ UNCHANGED disk

\* an adding operation is explored while the tag has room
Room == Len(tag.frames) < MaxFrames

\* the step of a load that gave r
Loaded(r) ==
    /\ tag' = IF r.err = "" THEN r.tag ELSE tag
    /\ uuid' = r.uuid
    /\ hist' = IF r.err = ""
               THEN [hist EXCEPT !.op = "load", !.arg = <<>>, !.ok = TRUE,
                                 !.err = "", !.branch = "", !.lo = 0, !.hi = 0,
                                 !.ops = @ + 1, !.gone = 0,
                                 !.body = Drop(disk[P], 10 + r.tag.size),
                                 !.low = r.tag.offset, !.fresh = {}]
               ELSE [hist EXCEPT !.op = "load", !.arg = <<r.msg>>, !.ok = FALSE,
                                 !.err = r.err, !.branch = "", !.lo = 0, !.hi = 0,
                                 !.ops = @ + 1, !.gone = 0]
    /\ UNCHANGED disk

\* load(P): the caller holds the loaded tag on success and keeps the tag it
\* had on an error
Load ==
    /\ hist.ops < MaxOps
    /\ Loaded(load(P, disk[P], uuid))

\* the step of a save to path p that gave r
Saved(p, fail, r) ==
    /\ tag' = r.tag
    /\ disk' = [disk EXCEPT ![p] = r.file]
    /\ hist' = [hist EXCEPT !.op = "save", !.arg = fail, !.ok = r.ok,
                            !.err = IF r.ok THEN "" ELSE "Io",
                            !.branch = r.branch, !.lo = r.lo, !.hi = r.hi,
                            !.ops = @ + 1,
                            !.gone = Cardinality(Uuids(tag) \ Uuids(r.tag)),
                            !.failures = IF r.ok THEN @ ELSE @ + 1,
                            !.skips = IF fail \in SkipFailPoints THEN @ + 1 ELSE @,
                            !.low = IF r.ok THEN r.tag.offset ELSE -1,
                            !.fresh = {u \in @ : \E i \in 1..Len(r.tag.frames) :
                                          /\ r.tag.frames[i].uuid = u
                                          /\ \/ r.tag.frames[i].offset = 0
                                             \/ r.lost = <<u>>}]
    /\ UNCHANGED uuid

\* save(), with the I/O call that fails (or none) chosen by the environment
\* among the calls this save makes (skip_metadata is called by the
\* full-rewrite branch only, and the save goes on when a call inside it
\* fails); save() of a tag without a path panics on unwrap and is not a step
SaveWith(fail) ==
    /\ hist.ops < MaxOps
    /\ tag.path # <<>>
    /\ fail # NoFail
         => IF fail \in SkipFailPoints
            THEN /\ hist.skips < MaxSkipFailures
                 /\ WritePlan(tag, tag.path[1]).rewrite
            ELSE /\ hist.failures < MaxFailures
                 /\ ~write(tag, tag.path[1], disk[tag.path[1]], fail).ok
    /\ Saved(tag.path[1], fail, write(tag, tag.path[1], disk[tag.path[1]], fail))

Save == SaveWith(NoFail)

SaveFailing == \E fail \in ExploredFailPoints \ {NoFail} : SaveWith(fail)

AddFrame(given) ==
    \E f \in given : Room /\ Mutate("add_frame", <<f>>, add_frame(tag, f, uuid))

AddTextFrame(ids, texts) ==
    \E id \in ids, text \in texts :
        Room /\ Mutate("add_text_frame", <<id, text>>, add_text_frame(tag, id, text, uuid))

AddTxxx(keys, values) ==
    \E k \in keys, v \in values :
        Room /\ Mutate("add_txxx", <<k, v>>, add_txxx(tag, k, v, uuid))

AddComment(keys, values) ==
    \E k \in keys, v \in values :
        Room /\ Mutate("add_comment", <<k, v>>, add_comment(tag, k, v, uuid))

AddPicture(mimes, types) ==
    \E mime \in mimes, ty \in types :
        Room /\ Mutate("add_picture", <<mime, ty>>, add_picture(tag, mime, ty, <<7>>, uuid))

RemoveFrameByUuid ==
    \E u \in Uuids(tag) :
        Mutate("remove_frame_by_uuid", <<u>>, remove_frame_by_uuid(tag, u))

RemoveFramesById ==
    \E i \in 1..Len(tag.frames) :
        Mutate("remove_frames_by_id", <<tag.frames[i].id>>,
               remove_frames_by_id(tag, tag.frames[i].id))

RemoveTxxx(keys, values) ==
    \E k \in keys, v \in values :
        /\ tag.frames # <<>>
        /\ Mutate("remove_txxx", <<k, v>>, remove_txxx(tag, k, v))

RemoveComment(keys, values) ==
    \E k \in keys, v \in values :
        /\ tag.frames # <<>>
        /\ Mutate("remove_comment", <<k, v>>, remove_comment(tag, k, v))

RemovePictureType(types) ==
    \E ty \in types :
        /\ tag.frames # <<>>
        /\ Mutate("remove_picture_type", <<ty>>, remove_picture_type(tag, ty))

SetPicture == Room /\ Mutate("set_picture", <<MimeP>>, set_picture(tag, MimeP, <<7>>, uuid))

SetAlbum == Room /\ Mutate("set_album", <<TxtX>>, set_album(tag, TxtX, uuid))

SetAlbumEnc(texts, encs) ==
    \E text \in texts, enc \in encs :
        Room /\ Mutate("set_album_enc", <<text, enc>>, set_album_enc(tag, text, enc, uuid))

SetAlbumArtist ==
    Room /\ Mutate("set_album_artist", <<TxtX>>, set_album_artist(tag, TxtX, uuid))

SetAlbumArtistEnc(texts, encs) ==
    \E text \in texts, enc \in encs :
        Room /\ Mutate("set_album_artist_enc", <<text, enc>>,
                       set_album_artist_enc(tag, text, enc, uuid))

SetLyrics == Room /\ Mutate("set_lyrics", <<TxtX>>, set_lyrics(tag, TxtX, uuid))

RemoveAlbum == tag.frames # <<>> /\ Mutate("remove_album", <<>>, remove_album(tag))

\* the operations that take the encoding of the frame they add
AddTextFrameEnc(ids, texts, encs) ==
    \E id \in ids, text \in texts, enc \in encs :
        Room /\ Mutate("add_text_frame_enc", <<id, text, enc>>,
                       add_text_frame_enc(tag, id, text, enc, uuid))

AddTxxxEnc(keys, values, encs) ==
    \E k \in keys, v \in values, enc \in encs :
        Room /\ Mutate("add_txxx_enc", <<k, v, enc>>, add_txxx_enc(tag, k, v, enc, uuid))

AddCommentEnc(keys, values, encs) ==
    \E k \in keys, v \in values, enc \in encs :
        Room /\ Mutate("add_comment_enc", <<k, v, enc>>,
                       add_comment_enc(tag, k, v, enc, uuid))

AddPictureEnc(mimes, types, descriptions, encs) ==
    \E m \in mimes, ty \in types, d \in descriptions, enc \in encs :
        Room /\ Mutate("add_picture_enc", <<m, ty, d, enc>>,
                       add_picture_enc(tag, m, ty, d, <<7>>, enc, uuid))

SetLyricsEnc(texts, encs) ==
    \E text \in texts, enc \in encs :
        Room /\ Mutate("set_lyrics_enc", <<text, enc>>, set_lyrics_enc(tag, text, enc, uuid))

SetArtist(texts) ==
    \E text \in texts : Room /\ Mutate("set_artist", <<text>>, set_artist(tag, text, uuid))

SetArtistEnc(texts, encs) ==
    \E text \in texts, enc \in encs :
        Room /\ Mutate("set_artist_enc", <<text, enc>>, set_artist_enc(tag, text, enc, uuid))

SetTitle(texts) ==
    \E text \in texts : Room /\ Mutate("set_title", <<text>>, set_title(tag, text, uuid))

SetTitleEnc(texts, encs) ==
    \E text \in texts, enc \in encs :
        Room /\ Mutate("set_title_enc", <<text, enc>>, set_title_enc(tag, text, enc, uuid))

SetGenre(texts) ==
    \E text \in texts : Room /\ Mutate("set_genre", <<text>>, set_genre(tag, text, uuid))

SetGenreEnc(texts, encs) ==
    \E text \in texts, enc \in encs :
        Room /\ Mutate("set_genre_enc", <<text, enc>>, set_genre_enc(tag, text, enc, uuid))

SetYear(years) ==
    \E y \in years : Room /\ Mutate("set_year", <<y>>, set_year(tag, y, uuid))

SetYearEnc(years, encs) ==
    \E y \in years, enc \in encs :
        Room /\ Mutate("set_year_enc", <<y, enc>>, set_year_enc(tag, y, enc, uuid))

SetTrackEnc(tracks, encs) ==
    \E n \in tracks, enc \in encs :
        Room /\ Mutate("set_track_enc", <<n, enc>>, set_track_enc(tag, n, enc, uuid))

SetTotalTracksEnc(totals, encs) ==
    \E n \in totals, enc \in encs :
        Room /\ Mutate("set_total_tracks_enc", <<n, enc>>,
                       set_total_tracks_enc(tag, n, enc, uuid))

(***************************************************************************)
(* Spec: the life of a tag on a file: load, container operations, save     *)
(* (also a save that an I/O error stops).                                  *)
(***************************************************************************)
Next ==
    \/ Load
    \/ Save
    \/ SaveFailing
    \/ AddFrame({RawPicture})
    \/ AddTextFrame({TIT2}, {TxtX})
    \/ AddTxxx({K1}, {V2})
    \/ AddPicture({MimeP}, {Other})
    \/ RemoveFrameByUuid
    \/ RemoveFramesById
    \/ RemoveTxxx({<<>>}, {<<>>})
    \/ RemovePictureType({Other})

Spec == Init /\ [][Next]_vars

(***************************************************************************)
(* SpecTag: the container operations on a tag that was constructed in      *)
(* memory, with more than one identifier, key, value and picture type.     *)
(***************************************************************************)
TagStep == hist.ops < MaxTagOps

\* AudioTag::with_version(v) replaces the tag the caller holds
WithVersion ==
    \E v \in 2..5 :
        /\ TagStep
        /\ tag' = with_version(v)
        /\ hist' = [hist0 EXCEPT !.op = "with_version", !.arg = <<v>>,
                                 !.ops = hist.ops + 1]
        /\ UNCHANGED <<disk, uuid>>

TagAddFrame == TagStep /\ AddFrame(GivenFrames)

TagAddTextFrame == TagStep /\ AddTextFrame({TIT2, TPE1}, {TxtX, TxtNew})

TagAddTxxx == TagStep /\ AddTxxx({K1, K2}, {V1, V2})

TagAddComment == TagStep /\ AddComment({K1, K2}, {V1, V2})

TagAddPicture == TagStep /\ AddPicture({MimeJ, MimeP}, {Other, CoverFront})

TagRemoveFrameByUuid == TagStep /\ RemoveFrameByUuid

TagRemoveFramesById == TagStep /\ RemoveFramesById

TagRemoveTxxx == TagStep /\ RemoveTxxx({<<>>, <<K1>>}, {<<>>, <<V1>>})

TagRemoveComment == TagStep /\ RemoveComment({<<>>, <<K1>>}, {<<>>, <<V1>>})

TagRemovePictureType == TagStep /\ RemovePictureType({Other, CoverFront})

TagSetPicture == TagStep /\ SetPicture

TagSetAlbum == TagStep /\ SetAlbum

TagSetLyrics == TagStep /\ SetLyrics

TagAddTextFrameEnc == TagStep /\ AddTextFrameEnc({TIT2}, {TxtX}, {Latin1, UTF16BE})

TagAddPictureEnc == TagStep /\ AddPictureEnc({MimeP}, {Other}, {Desc}, {UTF16, UTF16BE})

InitTag ==
    /\ tag = new
    /\ disk = [p \in Paths |-> Body]
    /\ uuid = 1
    /\ hist = hist0

NextTag ==
    \/ WithVersion
    \/ TagAddFrame
    \/ TagAddTextFrame
    \/ TagAddTxxx
    \/ TagAddComment
    \/ TagAddPicture
    \/ TagRemoveFrameByUuid
    \/ TagRemoveFramesById
    \/ TagRemoveTxxx
    \/ TagRemoveComment
    \/ TagRemovePictureType
    \/ TagSetPicture
    \/ TagSetAlbum
    \/ TagSetLyrics
    \/ TagAddTextFrameEnc
    \/ TagAddPictureEnc

SpecTag == InitTag /\ [][NextTag]_vars

(***************************************************************************)
(* Properties of the life of a tag on a file (checked under Spec).         *)
(***************************************************************************)

\* C1: after load(p), any container operations and a successful save(), the
\* bytes of the file from 10 + tag.size onward are the bytes that followed
\* the ID3 region when the tag was loaded, whichever branch the save took.
C1_BodyPreserved ==
    (hist.op = "save" /\ hist.ok) => Drop(disk[P], 10 + tag.size) = hist.body

\* C2: a save that takes the partial-overwrite branch leaves the length of
\* the file as it was and writes no byte at or beyond 10 + tag.size.
C2_OverwriteStaysInTag ==
    [][(hist'.ops = hist.ops + 1 /\ hist'.op = "save" /\ hist'.branch = "overwrite")
         => /\ Len(disk'[P]) = Len(disk[P])
            /\ hist'.hi <= 10 + tag'.size]_vars

\* identifiers and payload bytes of the frames of a tag, in order
Payloads(t) == [i \in 1..Len(t.frames) |-> <<t.frames[i].id, ContentBytes(t.frames[i])>>]

\* C3: a load that follows a successful save reads back exactly the frames
\* (identifiers and payloads, in order) the tag held after the save: its
\* frames at the save less those the save discarded.
C3_SaveLoadRoundTrip ==
    [][(hist.op = "save" /\ hist.ok /\ hist'.ops = hist.ops + 1
          /\ hist'.op = "load" /\ hist'.ok)
         => Payloads(tag') = Payloads(tag)]_vars

\* C4: from a load or successful save on, modified_offset is the smallest of
\* the offset that load or save left and the non-zero offsets of the frames
\* removed since.
C4_WatermarkIsLowest ==
    hist.low >= 0 => tag.modified_offset = hist.low

\* C5: in every reachable state, also after a save that an I/O error
\* stopped, modified_offset <= offset.
C5_WatermarkBelowOffset == tag.modified_offset <= tag.offset

\* a save failed after frames were removed from a loaded tag: the watermark
\* is strictly below the offset
C5_Witness ==
    /\ hist.op = "save" /\ ~hist.ok
    /\ 0 < tag.modified_offset /\ tag.modified_offset < tag.offset

\* C7: add_frame(f) appends f with a fresh identity and offset 0 (whatever
\* offset f carried) and changes nothing else of the tag; in every reachable
\* state a frame that was added and not yet written has offset 0.
C7_AddedFramesAtZero ==
    \A i \in 1..Len(tag.frames) :
        tag.frames[i].uuid \in hist.fresh => tag.frames[i].offset = 0

\* the effect of add_frame on the tag
C7_AddFrameAppends ==
    [][(hist'.ops = hist.ops + 1 /\ hist'.op = "add_frame")
         => /\ Len(tag'.frames) = Len(tag.frames) + 1
            /\ SubSeq(tag'.frames, 1, Len(tag.frames)) = tag.frames
            /\ LET f == tag'.frames[Len(tag'.frames)]
               IN  /\ f.offset = 0
                   /\ f.uuid \notin Uuids(tag)
                   /\ f = [hist'.arg[1] EXCEPT !.uuid = f.uuid, !.offset = 0]
            /\ [tag' EXCEPT !.frames = <<>>] = [tag EXCEPT !.frames = <<>>]]_vars

(***************************************************************************)
(* Properties of the container operations (checked under SpecTag).         *)
(***************************************************************************)

\* C6: with_version(v) returns a tag only for v in {3, 4}, with version
\* [v, 0]; for any other v it panics and constructs no tag.
C6_VersionChecked ==
    hist.op = "with_version"
        => /\ hist.arg[1] \in {3, 4}
           /\ tag.version = <<hist.arg[1], 0>>

\* C8: after add_picture(mime, T, data) or add_picture_enc(mime, T,
\* description, data, enc) the tag holds exactly one picture of type T, the
\* new one, as its last frame (with the description and the encoding given,
\* or the empty description and Latin1), and every picture of another type
\* the tag held is kept, in order.
C8_OnePicturePerType ==
    [][(hist'.ops = hist.ops + 1 /\ hist'.op \in {"add_picture", "add_picture_enc"})
         => LET ty == hist'.arg[2]
                enc == hist'.op = "add_picture_enc"
                description == IF enc THEN hist'.arg[3] ELSE <<>>
                last == tag'.frames[Len(tag'.frames)]
            IN  /\ Len(SelectSeq(pictures(tag'),
                                 LAMBDA f : f.contents.picture_type = ty)) = 1
                /\ last.id = APIC
                /\ last.contents = PictureContent(hist'.arg[1], ty, description, <<7>>)
                /\ last.encoding = IF enc THEN hist'.arg[4] ELSE Latin1
                /\ last.uuid \notin Uuids(tag)
                /\ SelectSeq(pictures(tag'), LAMBDA f : f.contents.picture_type # ty)
                     = SelectSeq(pictures(tag), LAMBDA f : f.contents.picture_type # ty)]_vars

\* add_picture_enc replaced a picture of its type, a picture of another type
\* stays, and the new picture has the description and the encoding given
C8_Witness ==
    /\ hist.op = "add_picture_enc" /\ hist.gone >= 1
    /\ Len(pictures(tag)) = 2
    /\ tag.frames[Len(tag.frames)].contents.description = Desc
    /\ tag.frames[Len(tag.frames)].encoding = UTF16BE

\* C9: after add_text_frame(id, text) or add_text_frame_enc(id, text, enc)
\* the tag holds exactly one frame with identifier id, it is the last frame,
\* its contents are Text(text) and its encoding is enc (the default encoding
\* of the tag for add_text_frame); the frames with other identifiers are
\* unchanged and keep their order.
C9_OneTextFramePerId ==
    [][(hist'.ops = hist.ops + 1 /\ hist'.op \in {"add_text_frame", "add_text_frame_enc"})
         => LET id == hist'.arg[1]
                last == tag'.frames[Len(tag'.frames)]
            IN  /\ Len(get_frames_by_id(tag', id)) = 1
                /\ last.id = id
                /\ last.contents = TextContent(hist'.arg[2])
                /\ last.encoding = IF hist'.op = "add_text_frame_enc" THEN hist'.arg[3]
                                   ELSE default_encoding(tag)
                /\ SelectSeq(tag'.frames, LAMBDA f : f.id # id)
                     = SelectSeq(tag.frames, LAMBDA f : f.id # id)]_vars

\* add_text_frame_enc replaced a frame of its identifier, another frame stays,
\* and the new frame has the encoding given
C9_Witness ==
    /\ hist.op = "add_text_frame_enc" /\ hist.gone >= 1
    /\ Len(tag.frames) >= 2
    /\ tag.frames[Len(tag.frames)].encoding = UTF16BE

\* the pairs of a sequence of pairs whose key is k / is not k
WithKey(pairs, k) == SelectSeq(pairs, LAMBDA p : p[1] = k)

\* C10: after add_txxx(k, v), txxx() holds exactly one pair with key k, and
\* its value is v; every pair with another key that txxx() held before is
\* still there.  The same for add_comment(description, text) and comments().
C10_OnePairPerKey ==
    [][(hist'.ops = hist.ops + 1 /\ hist'.op \in {"add_txxx", "add_comment"})
         => LET k == hist'.arg[1]
                before == IF hist'.op = "add_txxx" THEN txxx(tag) ELSE comments(tag)
                after  == IF hist'.op = "add_txxx" THEN txxx(tag') ELSE comments(tag')
            IN  /\ WithKey(after, k) = << <<k, hist'.arg[2]>> >>
                /\ \A i \in 1..Len(before) :
                       before[i][1] # k => \E j \in 1..Len(after) : after[j] = before[i]]_vars

\* add_txxx replaced the pair of its key and the pair of another key stays
C10_Witness ==
    /\ hist.op = "add_txxx" /\ hist.gone >= 1
    /\ Len(txxx(tag)) = 2

\* C11: remove_txxx(key, value) removes a TXXX frame exactly when (key is
\* None or equals the frame's key) and (value is None or equals the frame's
\* value), or when the frame's contents are not ExtendedText; it removes no
\* frame of another identifier and keeps the order of the frames that stay;
\* remove_txxx(None, None) leaves no TXXX frame.  remove_comment does the
\* same for COMM frames and Comment contents.
C11_RemoveKeyed ==
    [][(hist'.ops = hist.ops + 1 /\ hist'.op \in {"remove_txxx", "remove_comment"})
         => LET id      == IF hist'.op = "remove_txxx" THEN TXXX ELSE COMM
                variant == IF hist'.op = "remove_txxx" THEN "ExtendedText" ELSE "Comment"
                key     == hist'.arg[1]
                value   == hist'.arg[2]
                goes(f) == /\ f.id = id
                           /\ \/ f.contents.variant # variant
                              \/ /\ (key = <<>> \/ key[1] = f.contents.key)
                                 /\ (value = <<>> \/ value[1] = f.contents.value)
            IN  /\ tag'.frames = SelectSeq(tag.frames, LAMBDA f : ~goes(f))
                /\ (key = <<>> /\ value = <<>>) => get_frames_by_id(tag', id) = <<>>]_vars

\* remove_txxx(Some(K1), None) took a frame out and a TXXX frame of another
\* key stays
C11_Witness ==
    /\ hist.op = "remove_txxx" /\ hist.arg = << <<K1>>, <<>> >>
    /\ hist.gone >= 1
    /\ Len(txxx(tag)) >= 1

(***************************************************************************)
(* SpecFacade: the shortcut accessors (track number, album, album artist)   *)
(* on a tag built in memory, with well-formed and malformed TRCK texts and *)
(* with a TSOP frame.                                                      *)
(***************************************************************************)
\* "5/13", "7", "n", "5/", "/3", "5/x", "x/3", "5/1/2", ""
TrackTexts ==
    { <<53, 47, 49, 51>>, <<55>>, <<110>>, <<53, 47>>, <<47, 51>>, <<53, 47, 120>>,
      <<120, 47, 51>>, <<53, 47, 49, 47, 50>>, <<>> }

\* TRCK frames handed to add_frame: raw contents, and the text "2/9"
TrackFrames ==
    { [FrameNew(TRCK, 0) EXCEPT !.contents = UnknownContent(<<Latin1, 55>>)],
      [FrameNew(TRCK, 0) EXCEPT !.encoding = Latin1,
                                !.contents = TextContent(<<50, 47, 57>>)] }

TrackAddText == TagStep /\ AddTextFrame({TRCK}, TrackTexts)

TrackAddFrame == TagStep /\ AddFrame(TrackFrames)

TrackAddAlbum == TagStep /\ AddTextFrame({TALB}, {TxtX})

\* track() and total_tracks() are read; the history keeps what they gave
TrackRead == TagStep /\ Mutate("track", <<track(tag), total_tracks(tag)>>, tag)

TrackSet == TagStep /\ Mutate("set_track", <<3>>, set_track(tag, 3, uuid))

TrackSetTotal == TagStep /\ Mutate("set_total_tracks", <<12>>, set_total_tracks(tag, 12, uuid))

TrackRemoveTotal ==
    TagStep /\ Mutate("remove_total_tracks", <<>>, remove_total_tracks(tag, uuid))

FacadeAddSortOrder == TagStep /\ AddTextFrame({TSOP}, {TxtNew})

FacadeSetAlbum == TagStep /\ SetAlbum

FacadeSetAlbumEnc == TagStep /\ SetAlbumEnc({TxtX}, {UTF16})

FacadeSetAlbumArtist == TagStep /\ SetAlbumArtist

FacadeSetAlbumArtistEnc == TagStep /\ SetAlbumArtistEnc({TxtX}, {UTF16})

FacadeRemoveAlbum == TagStep /\ RemoveAlbum

NextFacade ==
    \/ TrackAddText
    \/ TrackAddFrame
    \/ TrackAddAlbum
    \/ TrackRead
    \/ TrackSet
    \/ TrackSetTotal
    \/ TrackRemoveTotal
    \/ FacadeAddSortOrder
    \/ FacadeSetAlbum
    \/ FacadeSetAlbumEnc
    \/ FacadeSetAlbumArtist
    \/ FacadeSetAlbumArtistEnc
    \/ FacadeRemoveAlbum

SpecFacade == InitTag /\ [][NextFacade]_vars

(***************************************************************************)
(* SpecEnc: the operations that take the encoding of the frame they add,   *)
(* and the setters of the shortcut accessors, with every encoding, on a    *)
(* tag built in memory.                                                    *)
(***************************************************************************)
MaxEncOps == 2

EncStep == hist.ops < MaxEncOps

\* the years 7 and 1999
Years == {7, 1999}

EncWithVersion == EncStep /\ WithVersion

EncAddTextFrame == EncStep /\ AddTextFrameEnc({TIT2, TPE1, TSOT}, {TxtX, TxtNew}, Encodings)

EncAddTxxx == EncStep /\ AddTxxxEnc({K1, K2}, {V1, V2}, Encodings)

EncAddComment == EncStep /\ AddCommentEnc({K1, K2}, {V1, V2}, Encodings)

EncAddPicture ==
    EncStep /\ AddPictureEnc({MimeJ, MimeP}, {Other, CoverFront}, {<<>>, Desc}, Encodings)

EncSetLyrics == EncStep /\ SetLyricsEnc({TxtX, TxtNew}, Encodings)

EncSetArtist == EncStep /\ SetArtist({TxtX, TxtNew})

EncSetArtistEnc == EncStep /\ SetArtistEnc({TxtX, TxtNew}, Encodings)

EncSetTitle == EncStep /\ SetTitle({TxtX, TxtNew})

EncSetTitleEnc == EncStep /\ SetTitleEnc({TxtX, TxtNew}, Encodings)

EncSetGenre == EncStep /\ SetGenre({TxtX, TxtNew})

EncSetGenreEnc == EncStep /\ SetGenreEnc({TxtX, TxtNew}, Encodings)

EncSetAlbum == EncStep /\ SetAlbumEnc({TxtX, TxtNew}, Encodings)

EncSetAlbumArtist == EncStep /\ SetAlbumArtistEnc({TxtX, TxtNew}, Encodings)

EncSetYear == EncStep /\ SetYear(Years)

EncSetYearEnc == EncStep /\ SetYearEnc(Years, Encodings)

EncSetTrack == EncStep /\ SetTrackEnc({3}, Encodings)

EncSetTotalTracks == EncStep /\ SetTotalTracksEnc({12}, Encodings)

EncRemoveFramesById == EncStep /\ RemoveFramesById

NextEnc ==
    \/ EncWithVersion
    \/ EncAddTextFrame
    \/ EncAddTxxx
    \/ EncAddComment
    \/ EncAddPicture
    \/ EncSetLyrics
    \/ EncSetArtist
    \/ EncSetArtistEnc
    \/ EncSetTitle
    \/ EncSetTitleEnc
    \/ EncSetGenre
    \/ EncSetGenreEnc
    \/ EncSetAlbum
    \/ EncSetAlbumArtist
    \/ EncSetYear
    \/ EncSetYearEnc
    \/ EncSetTrack
    \/ EncSetTotalTracks
    \/ EncRemoveFramesById

SpecEnc == InitTag /\ [][NextEnc]_vars

\* what track() and total_tracks() are to give by the description: the parts
\* of the text of the first TRCK frame before and after its first '/'
ClaimedTrack(t) ==
    LET f      == get_frame_by_id(t, TRCK)
        text   == f[1].contents.text
        k      == IF \E i \in 1..Len(text) : text[i] = 47
                  THEN CHOOSE i \in 1..Len(text) :
                           text[i] = 47 /\ \A j \in 1..(i - 1) : text[j] # 47
                  ELSE 0
        before == IF k = 0 THEN text ELSE SubSeq(text, 1, k - 1)
        after  == Drop(text, k)
        none   == << <<>>, <<>> >>
    IN  IF f = <<>> THEN none
        ELSE IF f[1].contents.variant # "Text" THEN none
        ELSE IF from_str(before) = <<>> THEN none
        ELSE IF k # 0 /\ from_str(after) = <<>> THEN none
        ELSE <<from_str(before), IF k = 0 THEN <<>> ELSE from_str(after)>>

\* C12: track() and total_tracks() parse the Text contents of the first TRCK
\* frame: "N" gives track N and no total, "N/M" gives track N and total M; a
\* text whose part before the first '/' is no number, or that has a '/' and
\* whose part after it is no number, gives none for both, and so do a
\* missing TRCK frame and contents that are not Text.
C12_TrackParsed == hist.op = "track" => hist.arg = ClaimedTrack(tag)

\* C13: on a tag whose TRCK parses as N/M, remove_total_tracks() leaves
\* total_tracks() none and track() N, and the TALB frames are as before.
C13_RemoveTotalTracks ==
    [][(hist'.ops = hist.ops + 1 /\ hist'.op = "remove_total_tracks"
          /\ track(tag) # <<>> /\ total_tracks(tag) # <<>>)
         => /\ total_tracks(tag') = <<>>
            /\ track(tag') = track(tag)
            /\ get_frames_by_id(tag', TALB) = get_frames_by_id(tag, TALB)]_vars

\* C14: after set_album, set_album_enc, set_album_artist or
\* set_album_artist_enc, whatever the tag held before, the tag has no frame
\* with the identifier TSOP.
C14_AlbumSettersClearTSOP ==
    hist.op \in {"set_album", "set_album_enc", "set_album_artist", "set_album_artist_enc"}
        => get_frames_by_id(tag, TSOP) = <<>>

\* The two setters that do call remove_frames_by_id("TSOP") leave no TSOP frame.
C14_ClearingSetters ==
    hist.op \in {"set_album", "set_album_artist_enc"} => get_frames_by_id(tag, TSOP) = <<>>

\* C15: after set_picture(mime, data), whatever the tag held before, the tag
\* holds exactly one APIC frame, a picture of type Other with the given mime
\* type and data; add_picture with type T leaves the pictures of every
\* other type in place.
C15_SetPictureClearsAll ==
    [][(hist'.ops = hist.ops + 1)
         => /\ hist'.op = "set_picture"
                => LET apic == get_frames_by_id(tag', APIC)
                   IN  /\ Len(apic) = 1
                       /\ apic[1].contents = PictureContent(hist'.arg[1], Other, <<>>, <<7>>)
            /\ hist'.op = "add_picture"
                => \A i \in 1..Len(tag.frames) :
                       (/\ tag.frames[i].id = APIC
                        /\ tag.frames[i].contents.variant = "Picture"
                        /\ tag.frames[i].contents.picture_type # hist'.arg[2])
                       => \E j \in 1..Len(tag'.frames) : tag'.frames[j] = tag.frames[i]]_vars

\* set_picture has removed two APIC frames, none of them of type Other
C15_Witness ==
    /\ hist.op = "set_picture" /\ hist.gone = 2
    /\ Len(get_frames_by_id(tag, APIC)) = 1

(***************************************************************************)
(* SpecLoad: load, save, skip_metadata and is_candidate on files of every  *)
(* kind: headers with each magic, major version and flag bits, files cut   *)
(* short, and tags laid out from supported, unsupported and broken frames. *)
(***************************************************************************)
\* the number of frames in a laid out tag
MaxItems == 2

\* the number of operations of a behaviour of SpecLoad
MaxLoadOps == 3

\* a file: magic, version, flags byte, size, the tag region (content and npad
\* zero bytes), the body
HeaderFile(magic, major, fb, content, npad) ==
    magic \o <<major, 0, fb>> \o be_u32(synchsafe(Len(content) + npad))
    \o content \o Zeros(npad) \o Body

ItemKinds == {"TPE1", "TIT2", "unsupported", "invalid", "short"}

\* the bytes of a frame in a file: two text frames, a frame with the
\* compression flag, a text frame with an encoding byte that is none, and a
\* frame whose size runs past the end of the file
ItemBytes(kind, version) ==
    CASE kind = "TPE1" -> to_bytes(Stored(TPE1, Latin1, TextContent(TxtX), NoFrameFlags), version)
      [] kind = "TIT2" -> to_bytes(Stored(TIT2, UTF8, TextContent(TxtNew), NoFrameFlags), version)
      [] kind = "unsupported" -> CompressedFrame(version)
      [] kind = "invalid" -> TCON \o FrameSizeBytes(2, version) \o <<0, 0>> \o <<9, 120>>
      [] kind = "short" -> TPE1 \o FrameSizeBytes(100, version) \o <<0, 0>> \o <<0, 120>>

RECURSIVE LayoutBytes(_, _)
LayoutBytes(layout, version) ==
    IF layout = <<>> THEN <<>>
    ELSE ItemBytes(Head(layout), version) \o LayoutBytes(Tail(layout), version)

Layouts == UNION {[1..n -> ItemKinds] : n \in 1..MaxItems}

LayoutFile(layout, version) == HeaderFile(ID3, version, 0, LayoutBytes(layout, version), 4)

\* the tag region under a header: in v2.2 the frame "TT2" with the text "x";
\* else a TPE1 frame, behind a six byte extended header when bit 6 is set
HeaderContent(major, fb) ==
    IF major = 2 THEN <<84, 84, 50, 0, 0, 2, Latin1, 120>>
    ELSE (IF (fb \div 64) % 2 = 1 THEN be_u32(synchsafe(6)) \o <<0, 0, 0, 0, 0, 1>>
          ELSE <<>>)
         \o ItemBytes("TPE1", IF major = 3 THEN 3 ELSE 4)

LoadFiles ==
    { HeaderFile(magic, major, fb, HeaderContent(major, fb), 4) :
          magic \in {ID3, <<73, 68, 88>>}, major \in 2..5, fb \in {0, 128, 64, 192} }
    \cup { Take(LayoutFile(<<"TPE1">>, 4), n) : n \in 0..14 }
    \cup { LayoutFile(layout, version) : layout \in Layouts, version \in {3, 4} }
    \cup { Body }

\* a path at which there is no file
Missing == "none.mp3"

InitLoad ==
    /\ tag = new
    /\ disk \in [Paths -> LoadFiles]
    /\ uuid = 1
    /\ hist = hist0

LoadStep == hist.ops < MaxLoadOps

FileLoad == LoadStep /\ Load

FileSave == LoadStep /\ Save

FileSaveFailing == LoadStep /\ SaveFailing

FileAddTextFrame == LoadStep /\ AddTextFrame({TALB}, {TxtX})

\* is_candidate(path): File::open fails for a path with no file
FileIsCandidate ==
    /\ LoadStep
    /\ \E path \in Paths \cup {Missing} :
           Mutate("is_candidate",
                  <<path, IF path \in DOMAIN disk THEN is_candidate(disk[path]) ELSE FALSE>>,
                  tag)

\* skip_metadata(path): Vec::new() for a path with no file
FileSkipMetadata ==
    /\ LoadStep
    /\ \E path \in Paths \cup {Missing} :
           Mutate("skip_metadata",
                  <<path, IF path \in DOMAIN disk THEN skip_metadata(disk[path]) ELSE <<>> >>,
                  tag)

NextLoad ==
    \/ FileLoad
    \/ FileSave
    \/ FileSaveFailing
    \/ FileAddTextFrame
    \/ FileIsCandidate
    \/ FileSkipMetadata

SpecLoad == InitLoad /\ [][NextLoad]_vars

\* C16: loading a v2.2 file gives a tag with version (4,0) and the rewrite
\* flag set; a save of such a tag takes the full-rewrite branch, and the
\* header it writes has the major version byte 4.
C16_V22Upgraded ==
    [][(hist'.ops = hist.ops + 1)
         => /\ (hist'.op = "load" /\ hist'.ok /\ disk[P][4] = 2)
                => tag'.version = <<4, 0>> /\ tag'.rewrite
            /\ (hist'.op = "save" /\ tag.rewrite)
                => /\ hist'.branch = "rewrite"
                   /\ hist'.ok => SubSeq(disk'[P], 1, 5) = ID3 \o <<4, 0>>]_vars

\* a tag loaded from a v2.2 file has been saved
C16_Witness ==
    /\ hist.op = "save" /\ hist.ok /\ hist.branch = "rewrite"
    /\ tag.rewrite /\ tag.frames # <<>> /\ tag.frames[1].id = TIT2
    /\ disk[P][4] = 4

\* C17: load of a file whose first three bytes are not "ID3" fails with
\* InvalidInput, and so does load of a file with the magic whose major
\* version byte is not 2, 3 or 4; the magic is looked at first (a file wrong
\* in both fails on the magic); no tag is returned and the file is unchanged.
C17_LoadRejects ==
    [][(hist'.ops = hist.ops + 1 /\ hist'.op = "load")
         => LET file  == disk[P]
                magic == Len(file) >= 3 /\ SubSeq(file, 1, 3) = ID3
            IN  /\ (Len(file) >= 3 /\ ~magic)
                    => /\ ~hist'.ok /\ hist'.err = "InvalidInput"
                       /\ hist'.arg = <<"file does not contain an id3 tag">>
                       /\ tag' = tag /\ disk' = disk
                /\ (Len(file) >= 4 /\ magic /\ file[4] \notin {2, 3, 4})
                    => /\ ~hist'.ok /\ hist'.err = "InvalidInput"
                       /\ hist'.arg = <<"unsupported id3 tag version">>
                       /\ tag' = tag /\ disk' = disk]_vars

\* a file with neither the magic nor a supported version was refused for its
\* magic, and the caller still holds the tag it had built
C17_Witness ==
    /\ hist.op = "load" /\ hist.err = "InvalidInput"
    /\ hist.arg = <<"file does not contain an id3 tag">>
    /\ Len(disk[P]) >= 4 /\ disk[P][4] = 5
    /\ tag.frames # <<>>

\* C18: on load of a file with the magic and a major version of 2, 3 or 4, a
\* flags byte with bit 7 set fails with UnsupportedFeature whatever the
\* version; bit 6 set fails with UnsupportedFeature (compression) in v2.2
\* only; in v2.3 and v2.4 bit 6 is the extended header, which is passed over
\* by its synchsafe size: the load succeeds and the first frame is the one
\* read at 14 + that size.
C18_HeaderFlagBits ==
    [][(hist'.ops = hist.ops + 1 /\ hist'.op = "load")
         => LET file == disk[P]
                bit7 == (file[6] \div 128) % 2 = 1
                bit6 == (file[6] \div 64) % 2 = 1
            IN  (Len(file) >= 6 /\ SubSeq(file, 1, 3) = ID3 /\ file[4] \in {2, 3, 4})
                => /\ bit7 => ~hist'.ok /\ hist'.err = "UnsupportedFeature"
                   /\ (bit6 /\ ~bit7 /\ file[4] = 2)
                       => /\ ~hist'.ok /\ hist'.err = "UnsupportedFeature"
                          /\ hist'.arg = <<"id3v2.2 compression is not supported">>
                   /\ (bit6 /\ ~bit7 /\ file[4] # 2 /\ Len(file) >= 14)
                       => /\ hist'.ok
                          /\ tag'.flags.extended_header
                          /\ tag'.frames # <<>>
                          /\ tag'.frames[1].id = TPE1
                          /\ tag'.frames[1].offset
                                 = 14 + unsynchsafe(from_be_u32(SubSeq(file, 11, 14)))]_vars

\* a tag was loaded from a file with a six byte extended header
C18_Witness ==
    /\ hist.op = "load" /\ hist.ok
    /\ tag.flags.extended_header
    /\ tag.frames # <<>> /\ tag.frames[1].offset = 20

\* C19: load of a file whose tag is laid out from supported and unsupported
\* frames succeeds, and the frames of the tag are the supported frames of
\* the file in file order; when a frame of the file cannot be read for
\* another reason, the load fails with the error of the first such frame
\* and returns no tag.
C19_UnsupportedSkipped ==
    [][(hist'.ops = hist.ops + 1 /\ hist'.op = "load")
         => \A layout \in Layouts, version \in {3, 4} :
                disk[P] = LayoutFile(layout, version)
                => LET broken == {i \in 1..Len(layout) : layout[i] \in {"invalid", "short"}}
                       first  == CHOOSE i \in broken : \A j \in broken : i <= j
                       good   == SelectSeq(layout, LAMBDA k : k \in {"TPE1", "TIT2"})
                   IN  IF broken = {}
                       THEN /\ hist'.ok
                            /\ Len(tag'.frames) = Len(good)
                            /\ \A i \in 1..Len(good) :
                                   /\ tag'.frames[i].id = (IF good[i] = "TPE1" THEN TPE1 ELSE TIT2)
                                   /\ tag'.frames[i].contents
                                          = TextContent(IF good[i] = "TPE1" THEN TxtX ELSE TxtNew)
                       ELSE /\ ~hist'.ok
                            /\ hist'.err = (IF layout[first] = "short" THEN "Io"
                                            ELSE "InvalidInput")
                            /\ tag' = tag]_vars

\* a tag of one frame was loaded from a file that holds an unsupported frame
\* before it
C19_Witness ==
    /\ hist.op = "load" /\ hist.ok
    /\ disk[P] = LayoutFile(<<"unsupported", "TIT2">>, 4)
    /\ Len(tag.frames) = 1 /\ tag.frames[1].id = TIT2

\* C20: is_candidate is false for every file that does not start with "ID3",
\* files of fewer than three bytes and paths with no file included;
\* skip_metadata of a readable file that does not start with "ID3" is the
\* whole file; skip_metadata of a file that starts with "ID3" and has its ten
\* header bytes is the bytes from 10 + unsynchsafe(size field) to the end.
C20_Probing ==
    LET path   == hist.arg[1]
        given  == hist.arg[2]
        exists == path \in DOMAIN disk
        file   == disk[path]
        starts == /\ exists /\ Len(file) >= 3
                  /\ file[1] = 73 /\ file[2] = 68 /\ file[3] = 51
        from   == 10 + unsynchsafe(from_be_u32(<<file[7], file[8], file[9], file[10]>>))
    IN  /\ (hist.op = "is_candidate" /\ ~starts) => given = FALSE
        /\ (hist.op = "skip_metadata" /\ exists /\ ~starts) => given = file
        /\ (hist.op = "skip_metadata" /\ starts /\ Len(file) >= 10)
               => /\ Len(given) = (IF from < Len(file) THEN Len(file) - from ELSE 0)
                  /\ \A i \in 1..Len(given) : given[i] = file[from + i]

\* skip_metadata gave the body of a file with a tag, and nothing of the tag
C20_Witness ==
    /\ hist.op = "skip_metadata" /\ hist.arg[1] = P
    /\ Len(disk[P]) > 13 /\ SubSeq(disk[P], 1, 3) = ID3
    /\ hist.arg[2] = Body

\* C21: skip_metadata gives the empty sequence whenever one of its I/O calls
\* fails: the open (no file at the path), the read of the magic (a file of
\* fewer than three bytes), the read of the size field (a file with the
\* magic that ends inside the ten header bytes).
C21_SkipMetadataErrorsEmpty ==
    hist.op = "skip_metadata"
        => LET path == hist.arg[1]
               file == disk[path]
           IN  (\/ path \notin DOMAIN disk
                \/ Len(file) < 3
                \/ SubSeq(file, 1, 3) = ID3 /\ Len(file) < 10)
               => hist.arg[2] = <<>>

\* skip_metadata of a path at which no file can be opened is the empty
\* sequence
C21_OpenErrorEmpty ==
    (hist.op = "skip_metadata" /\ hist.arg[1] \notin DOMAIN disk) => hist.arg[2] = <<>>

(***************************************************************************)
(* SpecFlags: TagFlags::to_bytes on every set of flags, and the byte it    *)
(* gives read back by the rules of load.                                   *)
(***************************************************************************)
InitFlags ==
    /\ tag \in {[new EXCEPT !.flags = fl] :
                  fl \in [unsynchronization : BOOLEAN, extended_header : BOOLEAN,
                          experimental : BOOLEAN, footer : BOOLEAN,
                          compression : BOOLEAN]}
    /\ disk = [p \in Paths |-> Body]
    /\ uuid = 1
    /\ hist = hist0

\* self.flags.to_bytes(); the history keeps the flags and the bytes
FlagsToBytes ==
    TagStep /\ Mutate("to_bytes", <<tag.flags, TagFlags_to_bytes(tag.flags)>>, tag)

\* the byte to_bytes gave, read as the flags byte of a header of a major version
FlagsRead ==
    /\ TagStep
    /\ hist.op = "to_bytes"
    /\ \E major \in {2, 3, 4} :
           Mutate("read_flags", <<major, hist.arg[2][1]>>,
                  [tag EXCEPT !.flags = ReadTagFlags(major, hist.arg[2][1])])

NextFlags == FlagsToBytes \/ FlagsRead

SpecFlags == InitFlags /\ [][NextFlags]_vars

\* C22: to_bytes gives one byte, 0x80 * unsynchronization + 0x40 *
\* extended_header + 0x20 * experimental + 0x10 * footer, whatever the
\* compression flag is: bits 0-3 are zero, all four set gives 0xF0 and none
\* set gives 0x00; that byte read by the v2.3 / v2.4 rules of load gives the
\* same four flags.
C22_FlagsByte ==
    [][(hist'.ops = hist.ops + 1)
         => LET fl  == tag.flags
                bit(b) == IF b THEN 1 ELSE 0
            IN  /\ hist'.op = "to_bytes"
                    => LET bytes == hist'.arg[2]
                       IN  /\ Len(bytes) = 1
                           /\ bytes[1] = 128 * bit(fl.unsynchronization)
                                          + 64 * bit(fl.extended_header)
                                          + 32 * bit(fl.experimental)
                                          + 16 * bit(fl.footer)
                           /\ bytes[1] % 16 = 0
                           /\ (fl.unsynchronization /\ fl.extended_header
                                  /\ fl.experimental /\ fl.footer) => bytes[1] = 240
                           /\ (~fl.unsynchronization /\ ~fl.extended_header
                                  /\ ~fl.experimental /\ ~fl.footer) => bytes[1] = 0
                /\ (hist'.op = "read_flags" /\ hist'.arg[1] \in {3, 4})
                    => /\ tag'.flags.unsynchronization = fl.unsynchronization
                       /\ tag'.flags.extended_header = fl.extended_header
                       /\ tag'.flags.experimental = fl.experimental
                       /\ tag'.flags.footer = fl.footer]_vars

\* the byte 0xF0 was read back as a v2.4 flags byte
C22_Witness ==
    /\ hist.op = "read_flags" /\ hist.arg = <<4, 240>>
    /\ tag.flags.unsynchronization /\ tag.flags.extended_header
    /\ tag.flags.experimental /\ tag.flags.footer

RECURSIVE FramesBytes(_, _)
\* the bytes of the frames of a tag as a file holds them, in list order
FramesBytes(frames, version) ==
    IF frames = <<>> THEN <<>>
    ELSE to_bytes(Head(frames), version) \o FramesBytes(Tail(frames), version)

\* C23: after a full-rewrite save the size N of the written header is the
\* number of bytes between the header and the audio body: the file is the
\* header, the frames written, 2048 zero bytes (together N bytes) and then,
\* at 10 + N, the audio body it held before; also when frames are discarded.
C23_RewriteSizeExact ==
    [][(hist'.ops = hist.ops + 1 /\ hist'.op = "save" /\ hist'.ok
          /\ hist'.branch = "rewrite")
         => LET file   == disk'[tag'.path[1]]
                N      == unsynchsafe(from_be_u32(SubSeq(file, 7, 10)))
                frames == FramesBytes(tag'.frames, tag'.version[1])
            IN  /\ N = Len(frames) + 2048
                /\ SubSeq(file, 11, 10 + N) = frames \o Zeros(2048)
                /\ Drop(file, 10 + N) = skip_metadata(disk[tag'.path[1]])]_vars

\* C23 for the full-rewrite saves that discard no frame and in which no call
\* inside skip_metadata fails
C23_RewriteSizeExactNoDiscard ==
    [][(hist'.ops = hist.ops + 1 /\ hist'.op = "save" /\ hist'.ok
          /\ hist'.branch = "rewrite" /\ hist'.gone = 0 /\ hist'.arg = NoFail)
         => LET file   == disk'[tag'.path[1]]
                N      == unsynchsafe(from_be_u32(SubSeq(file, 7, 10)))
                frames == FramesBytes(tag'.frames, tag'.version[1])
            IN  /\ N = Len(frames) + 2048
                /\ SubSeq(file, 11, 10 + N) = frames \o Zeros(2048)
                /\ Drop(file, 10 + N) = skip_metadata(disk[tag'.path[1]])]_vars

(***************************************************************************)
(* SpecWrite: write(path) to the path the tag was loaded from and to       *)
(* another path, on tags loaded from files of each version, with frames    *)
(* that carry preservation flags and identifiers of the discard list.      *)
(***************************************************************************)
\* the number of operations of a behaviour of SpecWrite
MaxWriteOps == 4

\* a second path, with a file that holds no tag
Q == "b.mp3"

\* a v2.4 file with a TIT2 frame, a TLEN frame and a TPE1 frame that has the
\* file_alter_preservation flag; the v2.4 file with a frame that has the
\* tag_alter_preservation flag; a v2.2 file; a v2.3 file; a v2.3 file with
\* an extended header; a v2.4 file with the flags byte 0x6F (extended header,
\* experimental, bits 0-3); a v2.4 file with the flags byte 0x3F
\* (experimental, footer, bits 0-3)
WriteFiles ==
    { TaggedFile(4, to_bytes(Stored(TIT2, UTF8, TextContent(TxtNew), NoFrameFlags), 4)
                    \o to_bytes(Stored(TLEN, Latin1, TextContent(<<55>>), NoFrameFlags), 4)
                    \o to_bytes(Stored(TPE1, Latin1, TextContent(TxtX),
                                       [NoFrameFlags EXCEPT !.file_alter_preservation = TRUE]),
                                4), 30),
      TaggedFile(4, to_bytes(Stored(APIC, Latin1,
                                    PictureContent(MimeJ, Other, <<>>, <<7>>),
                                    NoFrameFlags), 4)
                    \o to_bytes(Stored(TXXX, UTF8, ExtendedTextContent(K1, V1),
                                       [NoFrameFlags EXCEPT !.tag_alter_preservation = TRUE]),
                                4), 10),
      HeaderFile(ID3, 2, 0, HeaderContent(2, 0), 4),
      HeaderFile(ID3, 3, 0, HeaderContent(3, 0), 4),
      HeaderFile(ID3, 3, 64, HeaderContent(3, 64), 4),
      HeaderFile(ID3, 4, 111, HeaderContent(4, 111), 4),
      HeaderFile(ID3, 4, 63, HeaderContent(4, 63), 4) }

\* a frame built by the caller with the tag_alter_preservation flag set
FlaggedFrame ==
    [FrameNew(TCON, 0) EXCEPT !.encoding = Latin1, !.contents = TextContent(TxtX),
                              !.flags.tag_alter_preservation = TRUE]

InitWrite ==
    /\ tag = new
    /\ disk \in {[p \in {P, Q} |-> IF p = P THEN file ELSE <<211, 212>>] : file \in WriteFiles}
    /\ uuid = 1
    /\ hist = hist0

WriteStep == hist.ops < MaxWriteOps

WriteLoad == WriteStep /\ Load

\* write(path), no I/O call failing
WriteTo ==
    /\ WriteStep
    /\ \E path \in {P, Q} : Saved(path, NoFail, write(tag, path, disk[path], NoFail))

WriteAddFrame == WriteStep /\ AddFrame({FlaggedFrame})

WriteAddTextFrame == WriteStep /\ AddTextFrame({TALB}, {TxtX})

WriteRemoveFrame == WriteStep /\ RemoveFrameByUuid

NextWrite ==
    \/ WriteLoad
    \/ WriteTo
    \/ WriteAddFrame
    \/ WriteAddTextFrame
    \/ WriteRemoveFrame

SpecWrite == InitWrite /\ [][NextWrite]_vars

\* C24: write(path) takes the full-rewrite branch exactly when the rewrite
\* flag of the tag is set, or the tag has no path or another path, or its
\* extended_header flag is set, or the bytes of all its frames are more than
\* tag.size; else it takes the partial-overwrite branch.  The first three
\* causes, and only they, set the version to (4,0) and clear
\* extended_header.
C24_BranchChoice ==
    [][(hist'.ops = hist.ops + 1 /\ hist'.op = "save")
         => LET path    == tag'.path[1]
                changed == tag.path = <<>> \/ tag.path[1] # path
                forced  == tag.rewrite \/ changed \/ tag.flags.extended_header
                bytes   == FramesBytes(tag.frames, IF forced THEN 4 ELSE tag.version[1])
            IN  /\ hist'.branch = (IF forced \/ Len(bytes) > tag.size
                                    THEN "rewrite" ELSE "overwrite")
                /\ forced => tag'.version = <<4, 0>> /\ ~tag'.flags.extended_header
                /\ ~forced => tag'.version = tag.version /\ tag'.flags = tag.flags]_vars

\* a tag loaded from a v2.3 file took the full-rewrite branch on its own
\* path for the size of its frames alone, and kept its version
C24_Witness ==
    /\ hist.op = "save" /\ hist.ok /\ hist.branch = "rewrite"
    /\ tag.path = <<P>> /\ tag.version = <<3, 0>>

\* C25: in the full-rewrite branch a frame is removed from the tag and not
\* written exactly when its offset is not 0 and either its
\* tag_alter_preservation flag is set, or the path written differs from the
\* path of the tag and the frame has the file_alter_preservation flag or one
\* of the identifiers AENC, ETCO, EQUA, MLLT, POSS, SYLT, SYTC, RVAD, TENC,
\* TLEN, TSIZ.  Every other frame, so every frame with offset 0, is written,
\* in list order, and its new offset is the file position of its header.
C25_DiscardRule ==
    [][(hist'.ops = hist.ops + 1 /\ hist'.op = "save" /\ hist'.ok
          /\ hist'.branch = "rewrite")
         => LET path    == tag'.path[1]
                changed == tag.path = <<>> \/ tag.path[1] # path
                listed  == { <<65, 69, 78, 67>>, <<69, 84, 67, 79>>, <<69, 81, 85, 65>>,
                             <<77, 76, 76, 84>>, <<80, 79, 83, 83>>, <<83, 89, 76, 84>>,
                             <<83, 89, 84, 67>>, <<82, 86, 65, 68>>, <<84, 69, 78, 67>>,
                             <<84, 76, 69, 78>>, <<84, 83, 73, 90>> }
                kept    == SelectSeq(tag.frames, LAMBDA f :
                               ~(/\ f.offset # 0
                                 /\ \/ f.flags.tag_alter_preservation
                                    \/ /\ changed
                                       /\ \/ f.flags.file_alter_preservation
                                          \/ f.id \in listed))
                file    == disk'[path]
            IN  /\ Len(tag'.frames) = Len(kept)
                /\ \A i \in 1..Len(kept) :
                       LET f == tag'.frames[i]
                           b == to_bytes(f, tag'.version[1])
                       IN  /\ f = [kept[i] EXCEPT !.offset = f.offset]
                           /\ SubSeq(file, f.offset + 1, f.offset + Len(b)) = b
                           /\ f.offset = (IF i = 1 THEN 10
                                           ELSE tag'.frames[i - 1].offset
                                                + Len(to_bytes(tag'.frames[i - 1],
                                                               tag'.version[1])))]_vars

\* a write to another path has discarded two frames and written the others
C25_Witness ==
    /\ hist.op = "save" /\ hist.ok /\ hist.branch = "rewrite"
    /\ tag.path = <<Q>> /\ hist.gone = 2 /\ tag.frames # <<>>

\* C26: after a full-rewrite save offset and modified_offset are both the
\* file position after the 2048 padding bytes, where the audio body starts.
C26_OffsetAfterPadding ==
    [][(hist'.ops = hist.ops + 1 /\ hist'.op = "save" /\ hist'.ok
          /\ hist'.branch = "rewrite")
         => LET path == tag'.path[1]
                body == Len(disk'[path]) - Len(skip_metadata(disk[path]))
            IN  /\ tag'.offset = body
                /\ tag'.modified_offset = body]_vars

\* C26 as amended: after a full-rewrite save offset and modified_offset are
\* both the file position just past the last frame written, where the 2048
\* padding bytes start; 2048 bytes after it come the bytes skip_metadata
\* gave and nothing else: the audio body of the old file when no I/O call
\* inside skip_metadata failed; else, the save succeeding all the same, no
\* byte at all (the open failed, or the read that answers an error failed)
\* or the whole old file, its tag included.
C26_OffsetBeforePadding ==
    [][(hist'.ops = hist.ops + 1 /\ hist'.op = "save" /\ hist'.ok
          /\ hist'.branch = "rewrite")
         => LET path == tag'.path[1]
                file == disk'[path]
                old  == disk[path]
                body == IF hist'.arg = <<"skip_io", 0, 0>> THEN old
                        ELSE IF hist'.arg[1] \in {"skip_open", "skip_io"} THEN <<>>
                        ELSE IF Len(old) >= 10 /\ SubSeq(old, 1, 3) = ID3
                        THEN Drop(old, 10 + read_synchsafe(SubSeq(old, 7, 10)))
                        ELSE old
                last == IF tag'.frames = <<>> THEN 10
                        ELSE LET f == tag'.frames[Len(tag'.frames)]
                             IN  f.offset + Len(to_bytes(f, tag'.version[1]))
            IN  /\ tag'.offset = last
                /\ tag'.modified_offset = last
                /\ Len(file) = last + 2048 + Len(body)
                /\ \A i \in 1..2048 : file[last + i] = 0
                /\ Drop(file, last + 2048) = body]_vars

\* a full rewrite has written frames, the padding and a body that is not
\* empty
C26_Witness ==
    /\ hist.op = "save" /\ hist.ok /\ hist.branch = "rewrite"
    /\ tag.frames # <<>> /\ tag.offset > 10
    /\ Len(disk[tag.path[1]]) > tag.offset + 2048

\* C27: a partial overwrite writes, from modified_offset on, exactly the
\* frames whose offset is 0 or greater than modified_offset, without the
\* persisted frames that have tag_alter_preservation, in list order; when it
\* ends below the previous offset it writes zero bytes up to the previous
\* offset; afterwards offset and modified_offset are the position just past
\* the last frame written and every byte from there to the end of the tag
\* region, 10 + size, is zero.
C27_PartialOverwrite ==
    [][(hist'.ops = hist.ops + 1 /\ hist'.op = "save" /\ hist'.ok
          /\ hist'.branch = "overwrite")
         => LET path    == tag'.path[1]
                before  == disk[path]
                after   == disk'[path]
                mo      == tag.modified_offset
                emitted == SelectSeq(tag.frames, LAMBDA f :
                               /\ ~(f.offset # 0 /\ f.flags.tag_alter_preservation)
                               /\ (f.offset = 0 \/ f.offset > mo))
                bytes   == FramesBytes(emitted, tag.version[1])
                end     == mo + Len(bytes)
                top     == IF end < tag.offset THEN tag.offset ELSE end
            IN  /\ SubSeq(after, 1, mo) = SubSeq(before, 1, mo)
                /\ SubSeq(after, mo + 1, end) = bytes
                /\ \A i \in (end + 1)..top : after[i] = 0
                /\ Drop(after, top) = Drop(before, top)
                /\ tag'.offset = end
                /\ tag'.modified_offset = end
                /\ \A i \in (end + 1)..(10 + tag'.size) :
                       i <= Len(after) /\ after[i] = 0]_vars

\* the bytes a partial overwrite writes and the offsets it leaves, as C27
\* states them; the bytes up to the end of the tag region are zero
\* afterwards when the file held 10 + size bytes or more and its bytes from
\* the previous offset to 10 + size were zero
C27_PartialOverwriteBytes ==
    [][(hist'.ops = hist.ops + 1 /\ hist'.op = "save" /\ hist'.ok
          /\ hist'.branch = "overwrite")
         => LET path    == tag'.path[1]
                before  == disk[path]
                after   == disk'[path]
                mo      == tag.modified_offset
                emitted == SelectSeq(tag.frames, LAMBDA f :
                               /\ ~(f.offset # 0 /\ f.flags.tag_alter_preservation)
                               /\ (f.offset = 0 \/ f.offset > mo))
                bytes   == FramesBytes(emitted, tag.version[1])
                end     == mo + Len(bytes)
                top     == IF end < tag.offset THEN tag.offset ELSE end
                region  == 10 + tag.size
            IN  /\ (bytes # <<>> \/ end < tag.offset) => Len(after) >= top
                /\ (bytes = <<>> /\ end >= tag.offset) => after = before
                /\ \A i \in 1..mo : i <= Len(before) => after[i] = before[i]
                /\ SubSeq(after, mo + 1, end) = bytes
                /\ \A i \in (end + 1)..top : after[i] = 0
                /\ Drop(after, top) = Drop(before, top)
                /\ tag'.offset = end
                /\ tag'.modified_offset = end
                /\ tag'.size = tag.size
                /\ (/\ Len(before) >= region
                    /\ \A i \in (tag.offset + 1)..region : before[i] = 0)
                   => \A i \in (end + 1)..region : after[i] = 0]_vars

\* C28: every tag header that save writes has bits 0-3 and bit 6 of its
\* flags byte zero: a tag whose extended_header flag is set always takes the
\* full-rewrite branch, which clears the flag before it writes the header,
\* and the partial-overwrite branch leaves the first ten bytes of the file
\* as they are.
C28_WrittenHeaderFlags ==
    [][(hist'.ops = hist.ops + 1 /\ hist'.op = "save")
         => LET path   == tag'.path[1]
                before == disk[path]
                after  == disk'[path]
            IN  /\ tag.flags.extended_header => hist'.branch = "rewrite"
                /\ hist'.branch = "rewrite" => ~tag'.flags.extended_header
                /\ (hist'.branch = "rewrite" /\ hist'.arg[1] # "open")
                   => /\ Len(after) >= 6 => /\ after[6] % 16 = 0
                                            /\ (after[6] \div 64) % 2 = 0
                      /\ hist'.arg[1] # "header"
                         => /\ Len(after) >= 10
                            /\ SubSeq(after, 1, 5) = <<73, 68, 51>> \o tag'.version
                /\ hist'.branch = "overwrite"
                   => \A i \in 1..10 : i <= Len(before) => after[i] = before[i]]_vars

\* a tag loaded from a file whose flags byte has bit 6, bit 5 and bits 0-3
\* set has been saved to its own path, by a full rewrite that kept bit 5
C28_Witness ==
    /\ hist.op = "save" /\ hist.ok /\ hist.branch = "rewrite"
    /\ tag.path = <<P>> /\ tag.flags.experimental
    /\ Len(disk[P]) >= 10 /\ disk[P][6] = 32

\* C29: in every state reached through load, container operations and
\* successful saves, the frames with a non-zero offset come before the
\* frames with offset 0 in the frame list, the non-zero offsets increase
\* strictly in list order, and each of them is at least 10 and less than
\* tag.offset.
C29_OffsetOrdering ==
    hist.failures = 0
        => \A i \in 1..Len(tag.frames) :
               LET o == tag.frames[i].offset
               IN  o # 0 => /\ o >= 10
                            /\ o < tag.offset
                            /\ \A j \in 1..(i - 1) :
                                   /\ tag.frames[j].offset # 0
                                   /\ tag.frames[j].offset < o

\* add_frame was given a frame whose offset field was 77 and appended it,
\* with offset 0, to a loaded tag that holds two frames read from the file
C29_Witness ==
    /\ hist.failures = 0 /\ hist.op = "add_frame" /\ hist.arg = <<RawPicture>>
    /\ Len(tag.frames) = 3
    /\ tag.frames[1].offset >= 10
    /\ tag.frames[2].offset > tag.frames[1].offset
    /\ tag.frames[3].offset = 0
    /\ tag.offset > tag.frames[2].offset

\* C30: a save that follows a successful write to the same path, with no
\* container operation in between, leaves the file byte for byte as it is,
\* whichever branch either of the two takes.
C30_SaveIdempotent ==
    [][(/\ hist.op = "save" /\ hist.ok
        /\ hist'.ops = hist.ops + 1 /\ hist'.op = "save" /\ hist'.ok
        /\ tag'.path = tag.path)
         => disk' = disk]_vars

\* the same when neither of the two writes discards a frame
C30_SaveIdempotentNoDiscard ==
    [][(/\ hist.op = "save" /\ hist.ok /\ hist.gone = 0
        /\ hist'.ops = hist.ops + 1 /\ hist'.op = "save" /\ hist'.ok
        /\ hist'.gone = 0 /\ hist'.arg = NoFail
        /\ tag'.path = tag.path)
         => disk' = disk]_vars

====
